---- MODULE Spec2Model ----
(***************************************************************************)
(* The mind-map editor of python-flowchart-editor.py and flowchart/        *)
(* advanced.py as a state machine: the scene graph (nodes, connections),   *)
(* the undo/redo log, and the fold state of the nodes.  After it, the file *)
(* searcher of python-file-systemp.py and the image browser of             *)
(* python-image-template.py: a worker thread, the UI thread, and the       *)
(* queue of signals posted from the one to the other.                      *)
(*                                                                         *)
(* Conventions.                                                            *)
(*  - A node or connection is named by its Python identity id(obj).  A new *)
(*    object gets any identity that no live object of its kind holds, so   *)
(*    an identity freed by a removal may or may not come back.             *)
(*  - scene is the scene's item list in insertion order; scene.items()     *)
(*    enumerates it in descending stacking order, i.e. reversed.           *)
(*  - An exception that no handler catches ends the running handler at the *)
(*    raise: what it changed so far stays, the rest of it does not run.    *)
(*  - 0 stands for Python's None where an identity is expected.            *)
(***************************************************************************)
EXTENDS Integers, Sequences, FiniteSets, TLC

VARIABLES
    scene,          \* QGraphicsScene items, insertion order: [kind, id]
    node,           \* id -> FlowchartNode fields, for the nodes in the scene
    conn,           \* id -> FlowchartConnection fields, for those in the scene
    history,        \* FlowchartEditor.history
    history_index,  \* FlowchartEditor.history_index
    is_modified,    \* FlowchartEditor.is_modified
    page,           \* central_stack.currentIndex(): 0 welcome, 1 editor
    status,         \* the last statusBar().showMessage text, by name
    current_file,   \* FlowchartEditor.current_file, "" for None
    disk,           \* the files the file dialogs show: path -> content
    recorded,       \* ghost: every record appended to the log of this document
    trail,          \* ghost: the handlers run since a handler of interest began
    search,         \* the file searcher: FileSearcher and its FileSearchThread
    browser         \* the image browser: ImageViewer and its ImageLoader

vars == <<scene, node, conn, history, history_index, is_modified, page,
          status, current_file, disk, recorded, trail, search, browser>>

----------------------------------------------------------------------------
(* Bounds of the model *)

MaxNodes == 2       \* nodes in the scene, editor specification
MaxConns == 2       \* connections in the scene, editor specification
MaxRecords == 2     \* length of the log, editor specification
MaxNodeId == 3      \* node identities in use, editor specification
MaxConnId == 3      \* connection identities in use, editor specification
MaxCoord == 450     \* |x| and |y| of a node position, editor specification
MaxSelNodes == 2    \* nodes in the scene, selection specification
MaxSelConns == 2    \* connections in the scene, selection specification
MaxSelRecords == 1  \* length of the log, selection specification
MaxSelNodeId == 2   \* node identities in use, selection specification
MaxSelConnId == 2   \* connection identities in use, selection specification
MaxLogAdds == 22    \* nodes in the scene, log specification
MaxLogConns == 1    \* connections in the scene, log specification
MaxFoldNodes == 4   \* nodes in the scene, fold specification
MaxFoldConns == 3   \* connections in the scene, fold specification
MaxFoldCoord == 800 \* |x| and |y| of a node position, fold specification
MaxTrail == 3       \* handlers a trail follows
MaxStyleTrail == 4  \* handlers a trail follows up to the undo of a line style
MaxUndoTrail == 4   \* handlers a trail follows up to the undo of an added node
MaxRedoTrail == 5   \* handlers a trail follows up to the redo of an added node

(* Program constants *)

max_history == 20

None == 0
NodeIds == 1..(MaxLogAdds + 1)
ConnIds == 1..(MaxLogAdds + 1)

\* node texts; the node type used throughout is "minor", which stands for the
\* NODE_TYPES key "次要分支"
Texts == {"a"}

\* QColor values by name.  A node type's colour is named after the type.
TypeColor(t) == t
\* FlowchartConnection.__init__ derives the hue from hash(str(start) + str(end)),
\* which depends on the objects' addresses: any hue of this set
AutoHues == {"hue1"}

----------------------------------------------------------------------------
(* Sequence helpers *)

RECURSIVE Reverse(_)
Reverse(s) == IF s = <<>> THEN <<>> ELSE Reverse(Tail(s)) \o <<Head(s)>>

Range(s) == {s[i] : i \in DOMAIN s}

NoDuplicates(s) == \A i, j \in DOMAIN s : i # j => s[i] # s[j]

Restrict(f, D) == [x \in D |-> f[x]]

EmptyMap == [x \in {} |-> TRUE]

----------------------------------------------------------------------------
(* The scene graph as a value, so that a handler can be computed in steps *)

Graph(sc, nd, cn) == [scene |-> sc, node |-> nd, conn |-> cn]

Cur == Graph(scene, node, conn)

EmptyGraph == Graph(<<>>, EmptyMap, EmptyMap)

NodeItem(n) == [kind |-> "node", id |-> n]
ConnItem(c) == [kind |-> "conn", id |-> c]

\* scene.items(): descending stacking order, the last item added first
Items(G) == Reverse(G.scene)

\* the connections of scene.items() that start at n, in items() order
ConnsFrom(G, n) ==
    SelectSeq(Items(G), LAMBDA it : it.kind = "conn" /\ G.conn[it.id].start_node = n)

RemoveItem(G, it) ==
    Graph(SelectSeq(G.scene, LAMBDA x : x # it),
          IF it.kind = "node" THEN Restrict(G.node, DOMAIN G.node \ {it.id}) ELSE G.node,
          IF it.kind = "conn" THEN Restrict(G.conn, DOMAIN G.conn \ {it.id}) ELSE G.conn)

----------------------------------------------------------------------------
(* FlowchartNode and FlowchartConnection *)

\* FlowchartNode.__init__; NodePropertiesDialog hands the colour over
NewNode(t, text, pos, color) ==
    [node_type |-> t, node_text |-> text, pos |-> pos, color |-> color,
     visible |-> TRUE, is_folded |-> FALSE, children_visibility |-> EmptyMap]

\* FlowchartConnection.__init__: pen of width 2 in the hashed hue
NewConn(s, e, hue) ==
    [start_node |-> s, end_node |-> e, color |-> hue, width |-> 2, visible |-> TRUE]

AddNodeItem(G, n, rec) ==
    Graph(Append(G.scene, NodeItem(n)), (n :> rec) @@ G.node, G.conn)

AddConnItem(G, c, rec) ==
    Graph(Append(G.scene, ConnItem(c)), G.node, (c :> rec) @@ G.conn)

\* the node objects that an item of the scene still refers to: through a
\* node's children_visibility, or as an end of a connection
HeldNodes(G) ==
    UNION {DOMAIN G.node[n].children_visibility : n \in DOMAIN G.node}
    \cup {G.conn[c].start_node : c \in DOMAIN G.conn}
    \cup {G.conn[c].end_node : c \in DOMAIN G.conn}

\* FlowchartNode.get_child_nodes
get_child_nodes(G, n) ==
    LET cs == ConnsFrom(G, n)
    IN  [i \in 1..Len(cs) |-> G.conn[cs[i].id].end_node]

\* The outcome of a call: a value, or an exception that was raised
Ok(v) == [raised |-> FALSE, val |-> v]
Raised == [raised |-> TRUE, val |-> <<>>]

\* A call chain that is longer than the scene has nodes has come back to a node
\* it started from, and never returns: CPython ends it with RecursionError.
RecursionLimit(G) == Cardinality(DOMAIN G.node)

\* FlowchartNode.getAllChildNodes: no visited set
RECURSIVE getAllChildNodes(_, _, _)
getAllChildNodes(G, n, depth) ==
    IF depth > RecursionLimit(G) THEN Raised
    ELSE IF n \notin DOMAIN G.node THEN Ok(<<>>)
    ELSE LET cs == get_child_nodes(G, n)
             RECURSIVE Walk(_)
             Walk(i) ==
                 IF i > Len(cs) THEN Ok(<<>>)
                 ELSE LET sub == getAllChildNodes(G, cs[i], depth + 1)
                      IN  IF sub.raised THEN Raised
                          ELSE LET rest == Walk(i + 1)
                               IN  IF rest.raised THEN Raised
                                   ELSE Ok(<<cs[i]>> \o sub.val \o rest.val)
         IN  Walk(1)

\* deleteNode that takes out only the connections that start at a removed
\* node (a mutation of it)
deleteNodeKeepsIncoming(G, n, reply) ==
    IF reply # "Yes" THEN Ok(G)
    ELSE LET all == getAllChildNodes(G, n, 0)
         IN  IF all.raised THEN [raised |-> TRUE, val |-> G]
             ELSE IF n \notin DOMAIN G.node THEN Ok(G)
             ELSE LET gone == Range(all.val) \cup {n}
                      keepC == {c \in DOMAIN G.conn : G.conn[c].start_node \notin gone}
                      keepN == DOMAIN G.node \ gone
                  IN  Ok(Graph(SelectSeq(G.scene, LAMBDA it :
                                   \/ it.kind = "node" /\ it.id \in keepN
                                   \/ it.kind = "conn" /\ it.id \in keepC),
                               Restrict(G.node, keepN),
                               Restrict(G.conn, keepC)))

\* FlowchartNode.deleteNode; reply is the answer to the confirmation box
deleteNode(G, n, reply) ==
    IF reply # "Yes" THEN Ok(G)
    ELSE LET all == getAllChildNodes(G, n, 0)
         IN  IF all.raised THEN [raised |-> TRUE, val |-> G]
             ELSE IF n \notin DOMAIN G.node THEN Ok(G)
             ELSE LET nodes_to_delete == Range(all.val)
                      gone == nodes_to_delete \cup {n}
                      keepC == {c \in DOMAIN G.conn :
                                   /\ G.conn[c].start_node \notin gone
                                   /\ G.conn[c].end_node \notin gone}
                      keepN == DOMAIN G.node \ gone
                  IN  Ok(Graph(SelectSeq(G.scene, LAMBDA it :
                                   \/ it.kind = "node" /\ it.id \in keepN
                                   \/ it.kind = "conn" /\ it.id \in keepC),
                               Restrict(G.node, keepN),
                               Restrict(G.conn, keepC)))

\* FlowchartConnection.deleteConnection
deleteConnection(G, c) ==
    IF c \in DOMAIN G.conn THEN RemoveItem(G, ConnItem(c)) ELSE G

----------------------------------------------------------------------------
(* Identities *)

Min(S) == CHOOSE x \in S : \A y \in S : x <= y

\* the node identities a log record stores
RecordNodeRefs(d) ==
    IF d.type = "add_node" THEN {d.node_id, d.parent_node_id} \ {None}
    ELSE IF d.type = "delete_items" THEN
        UNION {IF d.items[i].item_type = "node"
               THEN {d.items[i].node_id}
                    \cup UNION {{d.items[i].connections[j].start_node_id,
                                 d.items[i].connections[j].end_node_id} :
                                j \in DOMAIN d.items[i].connections}
               ELSE {d.items[i].start_node_id, d.items[i].end_node_id} :
               i \in DOMAIN d.items}
    ELSE {}

\* the connection identities a log record stores
RecordConnRefs(d) ==
    IF d.type = "change_line_style"
    THEN {d.connections[i].connection_id : i \in DOMAIN d.connections}
    ELSE {}

HistoryNodeRefs(h) == UNION {RecordNodeRefs(h[i]) : i \in DOMAIN h}
HistoryConnRefs(h) == UNION {RecordConnRefs(h[i]) : i \in DOMAIN h}

\* id() of a new object: an identity no live object holds.  Identities that
\* nothing remembers are interchangeable, so the least of them stands for all;
\* an identity the log remembers is a different outcome each.
IdChoices(pool, live, refs) ==
    LET unref == pool \ (live \cup refs)
    IN  (IF unref = {} THEN {} ELSE {Min(unref)}) \cup ((refs \cap pool) \ live)

NewNodeIds(G, h) ==
    IdChoices(NodeIds, DOMAIN G.node \cup HeldNodes(G), HistoryNodeRefs(h))

NewConnIds(G, h) == IdChoices(ConnIds, DOMAIN G.conn, HistoryConnRefs(h))

----------------------------------------------------------------------------
(* The undo/redo log *)

\* addHistory without the truncation of lines 1483-1484 (a mutation of it)
addHistoryKeepsTail(h, idx, data) ==
    LET h2 == Append(h, data)
        h3 == IF Len(h2) > max_history THEN Tail(h2) ELSE h2
    IN  [history |-> h3, history_index |-> Len(h3) - 1]

\* addHistory that drops the newest record instead of the oldest when the log
\* is full (a mutation of lines 1490-1491)
addHistoryDropsNewest(h, idx, data) ==
    LET h1 == IF idx < Len(h) - 1 THEN SubSeq(h, 1, idx + 1) ELSE h
        h2 == Append(h1, data)
        h3 == IF Len(h2) > max_history THEN SubSeq(h2, 1, max_history) ELSE h2
    IN  [history |-> h3, history_index |-> Len(h3) - 1]

\* addHistory that takes the index before it drops the oldest record (a
\* mutation of lines 1490-1494)
addHistoryIndexBeforeDrop(h, idx, data) ==
    LET h1 == IF idx < Len(h) - 1 THEN SubSeq(h, 1, idx + 1) ELSE h
        h2 == Append(h1, data)
        h3 == IF Len(h2) > max_history THEN Tail(h2) ELSE h2
    IN  [history |-> h3, history_index |-> Len(h2) - 1]

\* FlowchartEditor.addHistory
addHistory(h, idx, data) ==
    LET h1 == IF idx < Len(h) - 1 THEN SubSeq(h, 1, idx + 1) ELSE h
        h2 == Append(h1, data)
        h3 == IF Len(h2) > max_history THEN Tail(h2) ELSE h2
    IN  [history |-> h3, history_index |-> Len(h3) - 1]

\* ghost: the records appended to the log since it was last emptied, for as
\* long as nothing was undone
\* cut is the number of records the last addHistory discarded past the index
CleanLog == [log |-> <<>>, no_undo |-> TRUE, cut |-> 0]
LogAppended(r, data, cut) ==
    [r EXCEPT !.log = IF r.no_undo THEN Append(@, data) ELSE @, !.cut = cut]
LogUndone == [log |-> <<>>, no_undo |-> FALSE, cut |-> 0]

\* ghost: a handler that starts a trail notes the scene graph it found; the
\* handlers of the same family that follow it are appended, up to MaxTrail;
\* any other handler ends the trail
NoTrail == [ops |-> <<>>, g |-> [scene |-> <<>>, node |-> <<>>, conn |-> <<>>]]
\* out is how the handler went: the answer to its prompt, or what it did
Step(name, arg, out) == [op |-> name, arg |-> arg, out |-> out]
Start(name, arg, out, G) == [ops |-> <<Step(name, arg, out)>>, g |-> G]
ThenUpTo(name, arg, out, max) ==
    IF trail.ops = <<>> \/ Len(trail.ops) >= max THEN NoTrail
    ELSE [trail EXCEPT !.ops = Append(@, Step(name, arg, out))]
Then(name, arg, out) == ThenUpTo(name, arg, out, MaxTrail)

----------------------------------------------------------------------------
(* FlowchartEditor.addNode *)

NoPos == <<>>

\* radius * cos(angle), radius * sin(angle) for radius 200, to the nearest integer
RingOffset(angle) ==
    CASE angle = 0   -> <<200, 0>>
      [] angle = 40  -> <<153, 129>>
      [] angle = 80  -> <<35, 197>>
      [] angle = 120 -> <<-100, 173>>
      [] angle = 160 -> <<-188, 68>>
      [] angle = 200 -> <<-188, -68>>
      [] angle = 240 -> <<-100, -173>>
      [] angle = 280 -> <<35, -197>>
      [] angle = 320 -> <<153, -129>>

\* the position addNode computes (lines 1236-1272); QPointF(0, 0) is falsy
NodePosition(G, parent_node, pos, node_type) ==
    IF pos # NoPos /\ pos # <<0, 0>> THEN pos
    ELSE IF parent_node # None THEN
        LET parent_pos == G.node[parent_node].pos
            child_count == Len(ConnsFrom(G, parent_node))
        IN  IF G.node[parent_node].node_type = "center"
            THEN LET off == RingOffset((child_count * 40) % 360)
                 IN  <<parent_pos[1] + off[1], parent_pos[2] + off[2]>>
            ELSE <<IF parent_pos[1] < 0 THEN parent_pos[1] - 180 ELSE parent_pos[1] + 180,
                   parent_pos[2] + ((child_count % 2) * 2 - 1) * (100 + child_count * 80)>>
    ELSE IF node_type = "center" THEN <<0, 0>> ELSE <<250, 250>>

AddNodeRecord(n, t, text, pos, parent_node) ==
    [type |-> "add_node", node_id |-> n, node_type |-> t, node_text |-> text,
     node_pos |-> pos, parent_node_id |-> parent_node]

\* The save prompt of addNode, newFlowchart and showWelcomePage: "Save" calls
\* self.saveFlowchart(), which FlowchartEditor does not define (AttributeError);
\* "Cancel" returns; "Discard" goes on.
SaveReplies == {"Save", "Discard", "Cancel"}
AsksToSave == is_modified /\ scene # <<>>

----------------------------------------------------------------------------
(* Files *)

\* current_file is None
NoFile == ""

\* the file the save dialog names, and files that were not written by the
\* editor
SavedPath == "doc.flow"
ForeignPaths == {"unreadable", "garbage.mindmap", "loop.mindmap", "nofield.mindmap"}
Paths == {SavedPath} \cup ForeignPaths

\* The content of a file: none (the file does not exist), unreadable (open()
\* raises), garbage (json.load raises), or a JSON document of node and
\* connection entries.  An entry is a record of the keys it has.  A node's
\* "id" is the string of a number, written here as the number.
FileContent(kind, nodes, connections) ==
    [kind |-> kind, nodes |-> nodes, connections |-> connections]
NoContent == FileContent("none", <<>>, <<>>)

\* QColor.name() of a colour, and QColor(name)
ColorName(color) == <<"#", color>>
ColorOfName(name) == name[2]

\* a node entry with the keys openFlowchart reads
ForeignNode(i, x, y) ==
    [id |-> i, type |-> "minor", text |-> "a", pos_x |-> x, pos_y |-> y,
     color |-> ColorName("custom")]

ForeignContent(path) ==
    CASE path = "unreadable" -> FileContent("unreadable", <<>>, <<>>)
      [] path = "garbage.mindmap" -> FileContent("garbage", <<>>, <<>>)
      [] path = "loop.mindmap" ->
            FileContent("json",
                <<ForeignNode(1, 0, 0), ForeignNode(2, 100, 0)>>,
                <<[start_id |-> 1, end_id |-> 2],
                  [start_id |-> 1, end_id |-> 3],
                  [start_id |-> 2, end_id |-> 2]>>)
      [] path = "nofield.mindmap" ->
            FileContent("json",
                <<ForeignNode(1, 0, 0),
                  [id |-> 2, type |-> "minor", pos_x |-> 100, pos_y |-> 0]>>,
                <<>>)

InitialDisk ==
    [p \in Paths |-> IF p = SavedPath THEN NoContent ELSE ForeignContent(p)]

----------------------------------------------------------------------------
(* The editor's state as a value, and its assignment *)

Ed == [g |-> Cur, history |-> history, history_index |-> history_index,
       is_modified |-> is_modified, page |-> page, status |-> status,
       current_file |-> current_file, disk |-> disk, recorded |-> recorded]

Commit(E, tr) ==
    /\ scene' = E.g.scene
    /\ node' = E.g.node
    /\ conn' = E.g.conn
    /\ history' = E.history
    /\ history_index' = E.history_index
    /\ is_modified' = E.is_modified
    /\ page' = E.page
    /\ status' = E.status
    /\ current_file' = E.current_file
    /\ disk' = E.disk
    /\ recorded' = E.recorded
    /\ trail' = tr
    /\ UNCHANGED <<search, browser>>

\* the nodes and connections a mouse click can hit: shown, on the editor page
VisibleNodes == IF page = 1 THEN {n \in DOMAIN node : node[n].visible} ELSE {}
VisibleConns == IF page = 1 THEN {c \in DOMAIN conn : conn[c].visible} ELSE {}

\* FlowchartNode.contextMenuEvent gets as far as showing the menu: for a node
\* with children it calls getAllChildNodes while it builds the fold submenu
MenuOpens(G, n) ==
    get_child_nodes(G, n) = <<>> \/ ~getAllChildNodes(G, n, 0).raised

\* the nodes whose context menu can be used
MenuNodes == {n \in VisibleNodes : MenuOpens(Cur, n)}

\* FlowchartEditor.newFlowchart, past its save prompt (lines 1685-1700)
newFlowchartBody(E) ==
    [E EXCEPT !.g = EmptyGraph, !.current_file = NoFile,
              !.history = <<>>, !.history_index = -1,
              !.is_modified = FALSE, !.page = 1, !.status = "new",
              !.recorded = CleanLog]

\* addHistory applied to the editor
Recorded(E, data) ==
    LET r == addHistory(E.history, E.history_index, data)
    IN  [E EXCEPT !.history = r.history, !.history_index = r.history_index,
                  !.recorded = LogAppended(@, data,
                                   IF E.history_index < Len(E.history) - 1
                                   THEN Len(E.history) - (E.history_index + 1)
                                   ELSE 0)]

\* addNode from the dialog's acceptance on (lines 1233-1308)
addNodeBody(E, parent_node, pos, t, text, color, n, c, hue) ==
    LET node_pos == NodePosition(E.g, parent_node, pos, t)
        G1 == AddNodeItem(E.g, n, NewNode(t, text, node_pos, color))
        G2 == IF parent_node # None
              THEN AddConnItem(G1, c, NewConn(parent_node, n, hue))
              ELSE G1
        E1 == [E EXCEPT !.g = G2, !.is_modified = TRUE]
        E2 == Recorded(E1, AddNodeRecord(n, t, text, node_pos, parent_node))
    IN  [E2 EXCEPT !.status = "added"]

\* FlowchartEditor.addNode, reached from the toolbar (no parent), from a node's
\* context menu (addChildNode) and from the view's context menu on an empty
\* spot while the scene has no centre node (addCenterNodeAt).  Parents are
\* the nodes whose context menu is used, TS, XS and CS the types, texts and
\* custom colours entered in the dialog, PS the spots clicked.
AddNode(Parents, TS, XS, CS, PS) ==
    \E parent_node \in {None} \cup (MenuNodes \cap Parents), pos \in {NoPos} \cup PS :
        /\ pos # NoPos =>
              /\ page = 1 /\ parent_node = None
              /\ \A m \in DOMAIN node : node[m].node_type # "center"
        /\ \/ /\ page # 1 /\ AsksToSave
              /\ \E r \in {"Save", "Cancel"} :
                    Commit(Ed, NoTrail)
           \/ LET E1 == IF page # 1 THEN newFlowchartBody(Ed) ELSE Ed
              IN  \/ Commit(E1, NoTrail)
                  \/ \E t \in TS, text \in XS, n \in NewNodeIds(E1.g, E1.history) :
                     \E color \in {TypeColor(t)} \cup CS :
                     \E c \in IF parent_node = None THEN {None}
                              ELSE NewConnIds(E1.g, E1.history) :
                     \E hue \in AutoHues :
                        Commit(addNodeBody(E1, parent_node, pos, t, text, color, n, c, hue),
                               Start("addNode", n, "Accepted", E1.g))

\* FlowchartView.mousePressEvent .. mouseReleaseEvent with Ctrl held: the press
\* hit node s, and itemAt() at the release gave end_item (None: no node)
DrawConnection ==
    \E s \in VisibleNodes, end_item \in {None} \cup VisibleNodes :
        IF end_item # None /\ end_item # s
        THEN \E c \in NewConnIds(Cur, history), hue \in AutoHues :
                Commit([Ed EXCEPT !.g = AddConnItem(Cur, c, NewConn(s, end_item, hue)),
                                  !.is_modified = TRUE],
                       NoTrail)
        ELSE Commit(Ed, NoTrail)

\* FlowchartNode.deleteNode from the node's context menu
DeleteNode ==
    \E n \in MenuNodes, reply \in {"Yes", "No"} :
        LET r == deleteNode(Cur, n, reply)
        IN  Commit([Ed EXCEPT !.g = r.val], NoTrail)

\* FlowchartConnection.deleteConnection from the connection's context menu
DeleteConnection ==
    \E c \in VisibleConns :
        Commit([Ed EXCEPT !.g = deleteConnection(Cur, c)], NoTrail)

\* FlowchartEditor.newFlowchart: the toolbar button passes clicked(False) as
\* ask_save, the shortcut and the welcome page leave ask_save at True
NewFlowchart ==
    \E ask_save \in BOOLEAN :
        IF ask_save /\ AsksToSave
        THEN \E r \in SaveReplies :
                IF r = "Discard"
                THEN Commit(newFlowchartBody(Ed), NoTrail)
                ELSE Commit(Ed, NoTrail)
        ELSE Commit(newFlowchartBody(Ed), NoTrail)

\* FlowchartEditor.showWelcomePage
ShowWelcomePage ==
    IF AsksToSave
    THEN \E r \in SaveReplies :
            IF r = "Discard"
            THEN Commit([Ed EXCEPT !.page = 0, !.status = "home"], NoTrail)
            ELSE Commit(Ed, NoTrail)
    ELSE Commit([Ed EXCEPT !.page = 0, !.status = "home"], NoTrail)

----------------------------------------------------------------------------
(* FlowchartEditor.deleteSelected *)

MaxSelect == 2      \* items selected at a time

\* node.connections, as far as it is still in the scene: a connection is
\* appended to the list of its start node and to the list of its end node when
\* it is made, so the list is in the order of the scene
RECURSIVE IncidentConns(_, _, _)
IncidentConns(G, n, i) ==
    IF i > Len(G.scene) THEN <<>>
    ELSE LET it == G.scene[i]
             once == IF it.kind = "conn" /\ G.conn[it.id].start_node = n
                     THEN <<it.id>> ELSE <<>>
             twice == IF it.kind = "conn" /\ G.conn[it.id].end_node = n
                      THEN <<it.id>> ELSE <<>>
         IN  once \o twice \o IncidentConns(G, n, i + 1)

ConnData(cr) ==
    [start_node_id |-> cr.start_node, end_node_id |-> cr.end_node, color |-> cr.color]

\* the record of a selected node (lines 1335-1355); G0 is the scene when the
\* handler began, which still describes an item an earlier deletion took out
NodeItemData(G0, G, n) ==
    LET cs == IncidentConns(G, n, 1)
    IN  [item_type |-> "node", node_id |-> n,
         node_type |-> G0.node[n].node_type, node_text |-> G0.node[n].node_text,
         node_pos |-> G0.node[n].pos, node_color |-> G0.node[n].color,
         connections |-> [i \in 1..Len(cs) |-> ConnData(G.conn[cs[i]])]]

\* the record of a selected connection (lines 1359-1365)
ConnItemData(G0, c) ==
    [item_type |-> "connection", start_node_id |-> G0.conn[c].start_node,
     end_node_id |-> G0.conn[c].end_node, color |-> G0.conn[c].color]

\* the loop over the selected items (lines 1332-1366)
RECURSIVE deleteSelectedLoop(_, _, _, _, _, _)
deleteSelectedLoop(G0, G, sel, replies, i, items) ==
    IF i > Len(sel) THEN [raised |-> FALSE, g |-> G, items |-> items]
    ELSE IF sel[i].kind = "node"
    THEN LET r == deleteNode(G, sel[i].id, replies[i])
         IN  IF r.raised THEN [raised |-> TRUE, g |-> G, items |-> items]
             ELSE deleteSelectedLoop(G0, r.val, sel, replies, i + 1,
                                     Append(items, NodeItemData(G0, G, sel[i].id)))
    ELSE deleteSelectedLoop(G0, deleteConnection(G, sel[i].id), sel, replies, i + 1,
                            Append(items, ConnItemData(G0, sel[i].id)))

\* scene.selectedItems(): shown items, in no particular order
Selections ==
    LET pick == {NodeItem(n) : n \in VisibleNodes} \cup {ConnItem(c) : c \in VisibleConns}
    IN  {sel \in UNION {[1..k -> pick] : k \in 1..MaxSelect} : NoDuplicates(sel)}

\* one answer per confirmation box; a connection raises none
RepliesFor(kinds) ==
    {rs \in [DOMAIN kinds -> {"Yes", "No"}] :
        \A i \in DOMAIN kinds : kinds[i] # "node" => rs[i] = "Yes"}

\* ghost: a deletion starts a trail, or continues that of a line style.  It
\* went "Declined" if only nodes were selected and every box was answered No,
\* "Yes" if every box was answered Yes, and "No" otherwise.
DeleteTrail(sel, replies) ==
    LET out == IF /\ \A i \in DOMAIN sel : sel[i].kind = "node"
                  /\ \A i \in DOMAIN sel : replies[i] = "No"
               THEN "Declined"
               ELSE IF "No" \in Range(replies) THEN "No" ELSE "Yes"
    IN  IF trail.ops # <<>> /\ trail.ops[1].op = "setLineStyle"
        THEN Then("deleteSelected", None, out)
        ELSE Start("deleteSelected", None, out, Cur)

DeleteSelected ==
    \E sel \in Selections :
    \E replies \in RepliesFor([i \in DOMAIN sel |-> sel[i].kind]) :
        LET r == deleteSelectedLoop(Cur, Cur, sel, replies, 1, <<>>)
            E1 == [Ed EXCEPT !.g = r.g]
            E2 == Recorded(E1, [type |-> "delete_items", items |-> r.items])
        IN  IF r.raised
            THEN Commit(E1, NoTrail)
            ELSE Commit([E2 EXCEPT !.is_modified = TRUE, !.status = "deleted"],
                        DeleteTrail(sel, replies))

----------------------------------------------------------------------------
(* Line styles of a change_line_style record *)

\* The connections of the scene that the entries of a record name by identity
\* get the entries' new style, or their old one: colour (through its name)
\* and pen width.  An entry whose connection is not found does nothing.
RECURSIVE Restyle(_, _, _)
Restyle(G, cds, new) ==
    IF cds = <<>> THEN G
    ELSE LET cd == Head(cds)
             G1 == IF cd.connection_id \in DOMAIN G.conn
                   THEN [G EXCEPT !.conn[cd.connection_id] =
                            [@ EXCEPT !.color = ColorOfName(IF new THEN cd.new_color
                                                            ELSE cd.old_color),
                                      !.width = IF new THEN cd.new_width ELSE cd.old_width]]
                   ELSE G
         IN  Restyle(G1, Tail(cds), new)

----------------------------------------------------------------------------
(* FlowchartEditor.undo *)

\* the identities of k objects made one after the other
RECURSIVE AllocSeqs(_, _, _, _)
AllocSeqs(pool, live, refs, k) ==
    IF k = 0 THEN {<<>>}
    ELSE UNION {{<<i>> \o rest : rest \in AllocSeqs(pool, live \cup {i}, refs, k - 1)} :
                i \in IdChoices(pool, live, refs)}

\* the first item of scene.items() that is a node with identity i, or None
FindNode(G, i) == IF i \in DOMAIN G.node THEN i ELSE None

\* undo of delete_items, first loop (lines 1515-1523): the nodes come back
\* under the identities ids; the result maps a recorded node_id to its new node
RECURSIVE RestoreNodes(_, _, _, _, _)
RestoreNodes(G, items, ids, i, nodes) ==
    IF i > Len(items) THEN [g |-> G, nodes |-> nodes]
    ELSE IF items[i].item_type = "node"
    THEN LET d == items[i]
             n == Head(ids)
             G1 == AddNodeItem(G, n, NewNode(d.node_type, d.node_text, d.node_pos,
                                             d.node_color))
         IN  RestoreNodes(G1, items, Tail(ids), i + 1,
                          (d.node_id :> n) @@ [x \in DOMAIN nodes \ {d.node_id} |-> nodes[x]])
    ELSE RestoreNodes(G, items, ids, i + 1, nodes)

\* one recorded connection, looked up in lookup (a map from identities to the
\* nodes they now name): <<[start, end, color]>> if it is made again, else <<>>
RestoredConn(cd, lookup) ==
    IF /\ cd.start_node_id \in DOMAIN lookup
       /\ cd.end_node_id \in DOMAIN lookup
       /\ lookup[cd.start_node_id] # lookup[cd.end_node_id]
    THEN <<[start |-> lookup[cd.start_node_id], end |-> lookup[cd.end_node_id],
            color |-> cd.color]>>
    ELSE <<>>

RECURSIVE RestoredConnsOf(_, _, _)
RestoredConnsOf(cds, lookup, j) ==
    IF j > Len(cds) THEN <<>>
    ELSE RestoredConn(cds[j], lookup) \o RestoredConnsOf(cds, lookup, j + 1)

\* undo of delete_items, second loop (lines 1526-1556): the connections to make
\* again, in order.  A node's connections are looked up among the nodes just
\* restored, a selected connection's among the nodes of the scene.
RECURSIVE RestoredConns(_, _, _, _)
RestoredConns(G, items, nodes, i) ==
    IF i > Len(items) THEN <<>>
    ELSE (IF items[i].item_type = "node"
          THEN RestoredConnsOf(items[i].connections, nodes, 1)
          ELSE RestoredConn(items[i], [x \in DOMAIN G.node |-> x]))
         \o RestoredConns(G, items, nodes, i + 1)

RECURSIVE AddConns(_, _, _)
AddConns(G, cs, ids) ==
    IF cs = <<>> THEN G
    ELSE AddConns(AddConnItem(G, Head(ids),
                              NewConn(Head(cs).start, Head(cs).end, Head(cs).color)),
                  Tail(cs), Tail(ids))

NodeItemCount(items) == Len(SelectSeq(items, LAMBDA d : d.item_type = "node"))

\* what every undo ends with (lines 1572-1578)
undoTail(E) ==
    [E EXCEPT !.history_index = @ - 1, !.is_modified = TRUE, !.status = "undone",
              !.recorded = LogUndone]

\* a refused undo that also marks the document modified (a mutation of it)
undoRefusedMarksModified(E) ==
    [E EXCEPT !.status = "nothing_to_undo", !.is_modified = TRUE]

\* undo with nothing to undo (lines 1498-1500)
undoRefused(E) == [E EXCEPT !.status = "nothing_to_undo"]

Undo ==
    IF history_index < 0
    THEN Commit(undoRefused(Ed), NoTrail)
    ELSE LET data == history[history_index + 1]
         IN  CASE data.type = "add_node" ->
                    LET n == FindNode(Cur, data.node_id)
                    IN  IF n = None
                        THEN Commit(undoTail(Ed),
                                    ThenUpTo("undo", None, "gone", MaxUndoTrail))
                        ELSE \E reply \in {"Yes", "No"} :
                                LET r == deleteNode(Cur, n, reply)
                                IN  IF r.raised
                                    THEN Commit(Ed, Then("undo", n, "raised"))
                                    ELSE Commit(undoTail([Ed EXCEPT !.g = r.val]),
                                                ThenUpTo("undo", n, reply, MaxUndoTrail))
               [] data.type = "delete_items" ->
                    \E ids \in AllocSeqs(NodeIds, DOMAIN node \cup HeldNodes(Cur),
                                         HistoryNodeRefs(history),
                                         NodeItemCount(data.items)) :
                        LET r == RestoreNodes(Cur, data.items, ids, 1, EmptyMap)
                            cs == RestoredConns(r.g, data.items, r.nodes, 1)
                        IN  \E cids \in AllocSeqs(ConnIds, DOMAIN conn,
                                                  HistoryConnRefs(history), Len(cs)) :
                                Commit(undoTail([Ed EXCEPT !.g = AddConns(r.g, cs, cids)]),
                                       Then("undo", None, "restored"))
               [] data.type = "change_line_style" ->
                    Commit(undoTail([Ed EXCEPT !.g = Restyle(Cur, data.connections, FALSE)]),
                           ThenUpTo("undo", None, "restyled", MaxStyleTrail))

----------------------------------------------------------------------------
(* FlowchartEditor.redo (the later of its two definitions, which is in force) *)

\* the first connection of scene.items() that runs from s to e, or None
FindConn(G, s, e) ==
    LET cs == SelectSeq(Items(G), LAMBDA it :
                  /\ it.kind = "conn"
                  /\ G.conn[it.id].start_node = s
                  /\ G.conn[it.id].end_node = e)
    IN  IF cs = <<>> THEN None ELSE Head(cs).id

\* redo of delete_items (lines 1830-1845); replies[i] answers the confirmation
\* box of the i-th item if it is a node that is found in the scene
RECURSIVE redoDeleteLoop(_, _, _, _)
redoDeleteLoop(G, items, replies, i) ==
    IF i > Len(items) THEN [raised |-> FALSE, g |-> G]
    ELSE IF items[i].item_type = "node"
    THEN LET n == FindNode(G, items[i].node_id)
         IN  IF n = None THEN redoDeleteLoop(G, items, replies, i + 1)
             ELSE LET r == deleteNode(G, n, replies[i])
                  IN  IF r.raised THEN [raised |-> TRUE, g |-> G]
                      ELSE redoDeleteLoop(r.val, items, replies, i + 1)
    ELSE LET c == FindConn(G, items[i].start_node_id, items[i].end_node_id)
         IN  redoDeleteLoop(IF c = None THEN G ELSE deleteConnection(G, c),
                            items, replies, i + 1)

\* what a redo that runs to its end does last (lines 1860-1863)
redoTail(E) == [E EXCEPT !.is_modified = TRUE, !.status = "redone"]

\* redo with nothing to redo (lines 1805-1807)
redoRefused(E) == [E EXCEPT !.status = "nothing_to_redo"]

Redo ==
    IF history_index >= Len(history) - 1
    THEN Commit(redoRefused(Ed), NoTrail)
    ELSE LET E1 == [Ed EXCEPT !.history_index = @ + 1]
             data == history[E1.history_index + 1]
         IN  CASE data.type = "add_node" ->
                    \E n \in NewNodeIds(Cur, history) :
                        LET G1 == AddNodeItem(Cur, n,
                                      NewNode(data.node_type, data.node_text,
                                              data.node_pos, TypeColor(data.node_type)))
                            parent == IF data.parent_node_id # None
                                      THEN FindNode(G1, data.parent_node_id)
                                      ELSE None
                        IN  IF parent = None
                            THEN Commit(redoTail([E1 EXCEPT !.g = G1]),
                                        ThenUpTo("redo", n, "added", MaxRedoTrail))
                            ELSE \E c \in NewConnIds(G1, history), hue \in AutoHues :
                                    Commit(redoTail([E1 EXCEPT !.g =
                                               AddConnItem(G1, c, NewConn(parent, n, hue))]),
                                           ThenUpTo("redo", n, "added", MaxRedoTrail))
               [] data.type = "delete_items" ->
                    \E replies \in RepliesFor([i \in DOMAIN data.items |->
                                                  data.items[i].item_type]) :
                        LET r == redoDeleteLoop(Cur, data.items, replies, 1)
                        IN  IF r.raised
                            THEN Commit([E1 EXCEPT !.g = r.g], Then("redo", None, "raised"))
                            ELSE Commit(redoTail([E1 EXCEPT !.g = r.g]),
                                        Then("redo", None,
                                             IF "No" \in Range(replies) THEN "No" ELSE "Yes"))
               [] data.type = "change_line_style" ->
                    Commit(redoTail([E1 EXCEPT !.g = Restyle(Cur, data.connections, TRUE)]),
                           Then("redo", None, "restyled"))

----------------------------------------------------------------------------
(* FlowchartEditor.setLineStyle *)

\* the colour and the width chosen in the dialog
StyleColors == {"red"}
StyleWidths == {4}

\* the selected connections: shown connections, in no particular order
StyleSelections ==
    {sel \in UNION {[1..k -> VisibleConns] : k \in 0..MaxSelect} : NoDuplicates(sel)}

\* the record of a style change (lines 1446-1460)
StyleRecord(G, sel, color, width) ==
    [type |-> "change_line_style",
     connections |-> [i \in DOMAIN sel |->
        [connection_id |-> sel[i],
         old_color |-> ColorName(G.conn[sel[i]].color),
         old_width |-> G.conn[sel[i]].width,
         new_color |-> ColorName(color),
         new_width |-> width]]]

SetLineStyle ==
    \E sel \in StyleSelections :
        IF sel = <<>> THEN Commit(Ed, NoTrail)
        ELSE \/ Commit(Ed, NoTrail)
             \/ \E color \in StyleColors, width \in StyleWidths :
                    LET data == StyleRecord(Cur, sel, color, width)
                        G1 == Restyle(Cur, data.connections, TRUE)
                        E1 == Recorded([Ed EXCEPT !.g = G1], data)
                    IN  Commit([E1 EXCEPT !.is_modified = TRUE, !.status = "styled"],
                               Start("setLineStyle", None, "Accepted", Cur))

----------------------------------------------------------------------------
(* Folding: KeyboardShortcutManager in flowchart/advanced.py *)

\* the connections from n to child are given visibility v
SetConnsVisible(G, n, child, v) ==
    [G EXCEPT !.conn = [c \in DOMAIN G.conn |->
        IF G.conn[c].start_node = n /\ G.conn[c].end_node = child
        THEN [G.conn[c] EXCEPT !.visible = v]
        ELSE G.conn[c]]]

\* _collapse_node, the loop over child_nodes (lines 138-146)
RECURSIVE collapseLoop(_, _, _, _)
collapseLoop(G, n, child_nodes, i) ==
    IF i > Len(child_nodes) THEN G
    ELSE LET child == child_nodes[i]
             G1 == [G EXCEPT !.node[n].children_visibility =
                        (child :> G.node[child].visible)
                        @@ [x \in DOMAIN @ \ {child} |-> @[x]]]
             G2 == [G1 EXCEPT !.node[child].visible = FALSE]
         IN  collapseLoop(SetConnsVisible(G2, n, child, FALSE), n, child_nodes, i + 1)

\* _collapse_node.  Its last statements call node.setBrush, which a
\* FlowchartNode, a QGraphicsItem, does not have: AttributeError.
collapse_node(G, n, child_nodes) ==
    LET G1 == [G EXCEPT !.node[n].children_visibility = EmptyMap]
        G2 == collapseLoop(G1, n, child_nodes, 1)
    IN  [raised |-> TRUE, val |-> [G2 EXCEPT !.node[n].is_folded = TRUE]]

\* _expand_node; it ends in the same call of node.setBrush
expand_node(G, n) ==
    LET cv == G.node[n].children_visibility
        G1 == [G EXCEPT
                 !.node = [m \in DOMAIN G.node |->
                             IF m \in DOMAIN cv
                             THEN [G.node[m] EXCEPT !.visible = cv[m]]
                             ELSE G.node[m]],
                 !.conn = [c \in DOMAIN G.conn |->
                             IF G.conn[c].start_node = n /\ G.conn[c].end_node \in DOMAIN cv
                             THEN [G.conn[c] EXCEPT !.visible = TRUE]
                             ELSE G.conn[c]]]
    IN  [raised |-> TRUE, val |-> [G1 EXCEPT !.node[n].is_folded = FALSE]]

\* every node of S is shown and marked unfolded
Unfolded(G, S) ==
    [G EXCEPT !.node = [m \in DOMAIN G.node |->
        IF m \in S THEN [G.node[m] EXCEPT !.visible = TRUE, !.is_folded = FALSE]
        ELSE G.node[m]]]

\* _fold_all_levels
fold_all_levels(G, n) ==
    LET all_descendants == getAllChildNodes(G, n, 0)
    IN  IF all_descendants.raised THEN [raised |-> TRUE, val |-> G]
        ELSE LET G1 == Unfolded(G, Range(all_descendants.val))
                 direct_children == get_child_nodes(G1, n)
                 r == collapse_node(G1, n, direct_children)
             IN  IF r.raised THEN r
                 ELSE Ok([r.val EXCEPT !.node = [m \in DOMAIN r.val.node |->
                            IF m \in Range(direct_children)
                               /\ get_child_nodes(r.val, m) # <<>>
                            THEN [r.val.node[m] EXCEPT !.is_folded = TRUE]
                            ELSE r.val.node[m]]])

\* _toggle_fold_node with a prompt whose Cancel folds one level, as No does
toggle_fold_node_cancel_folds(G, n, reply) ==
    LET child_nodes == get_child_nodes(G, n)
        is_folded == G.node[n].is_folded
        all_descendants == getAllChildNodes(G, n, 0)
    IN  IF child_nodes = <<>> THEN [raised |-> FALSE, val |-> G, did |-> "nothing"]
        ELSE IF all_descendants.raised
        THEN [raised |-> TRUE, val |-> G, did |-> "nothing"]
        ELSE IF /\ Len(all_descendants.val) > Len(child_nodes)
                /\ ~is_folded
                /\ reply = "Yes"
        THEN LET r == fold_all_levels(G, n)
             IN  [raised |-> r.raised, val |-> r.val, did |-> "fold_all"]
        ELSE IF is_folded
        THEN LET r == expand_node(G, n)
             IN  [raised |-> r.raised, val |-> r.val, did |-> "expand"]
        ELSE LET r == collapse_node(G, n, child_nodes)
             IN  [raised |-> r.raised, val |-> r.val,
                  did |-> IF /\ Len(all_descendants.val) > Len(child_nodes)
                             /\ reply = "Cancel"
                          THEN "cancel" ELSE "collapse"]

\* _toggle_fold_node; reply answers its three-way prompt.  did names the
\* routine it went into.
toggle_fold_node(G, n, reply) ==
    LET child_nodes == get_child_nodes(G, n)
        is_folded == G.node[n].is_folded
        all_descendants == getAllChildNodes(G, n, 0)
    IN  IF child_nodes = <<>> THEN [raised |-> FALSE, val |-> G, did |-> "nothing"]
        ELSE IF all_descendants.raised
        THEN [raised |-> TRUE, val |-> G, did |-> "nothing"]
        ELSE IF /\ Len(all_descendants.val) > Len(child_nodes)
                /\ ~is_folded
                /\ reply = "Cancel"
        THEN [raised |-> FALSE, val |-> G, did |-> "cancel"]
        ELSE IF /\ Len(all_descendants.val) > Len(child_nodes)
                /\ ~is_folded
                /\ reply = "Yes"
        THEN LET r == fold_all_levels(G, n)
             IN  [raised |-> r.raised, val |-> r.val, did |-> "fold_all"]
        ELSE IF is_folded
        THEN LET r == expand_node(G, n)
             IN  [raised |-> r.raised, val |-> r.val, did |-> "expand"]
        ELSE LET r == collapse_node(G, n, child_nodes)
             IN  [raised |-> r.raised, val |-> r.val, did |-> "collapse"]

\* ghost: a fold and a cancelled prompt start a trail, an expansion
\* continues it
FoldTrail(handler, n, did, G) ==
    IF did \in {"collapse", "fold_all", "cancel"} THEN Start(handler, n, did, G)
    ELSE IF did = "expand" THEN Then(handler, n, did)
    ELSE NoTrail

\* FlowchartNode.toggleFold from the context menu, or Ctrl+F with the node
\* selected (toggle_fold_selected)
ToggleFold ==
    \E n \in VisibleNodes, reply \in {"Yes", "No", "Cancel"} :
        LET r == toggle_fold_node(Cur, n, reply)
        IN  Commit([Ed EXCEPT !.g = r.val], FoldTrail("toggleFold", n, r.did, Cur))

\* the context menu has a fold submenu for a node with children; it offers
\* the all-levels entries if the node has more descendants than children
HasDeeperLevels(G, n) ==
    /\ get_child_nodes(G, n) # <<>>
    /\ ~getAllChildNodes(G, n, 0).raised
    /\ Len(getAllChildNodes(G, n, 0).val) > Len(get_child_nodes(G, n))

\* FlowchartNode.foldAllLevels from the context menu of an unfolded node
FoldAllLevels ==
    \E n \in VisibleNodes :
        /\ HasDeeperLevels(Cur, n) /\ ~node[n].is_folded
        /\ LET r == fold_all_levels(Cur, n)
           IN  Commit([Ed EXCEPT !.g = r.val], FoldTrail("foldAllLevels", n, "fold_all", Cur))

\* FlowchartNode.expandAllLevels from the context menu of a folded node
ExpandAllLevels ==
    \E n \in VisibleNodes :
        /\ HasDeeperLevels(Cur, n) /\ node[n].is_folded
        /\ LET all_descendants == getAllChildNodes(Cur, n, 0)
               G1 == Unfolded(Cur, Range(all_descendants.val))
               G2 == [G1 EXCEPT !.node[n].is_folded = FALSE]
           IN  Commit([Ed EXCEPT !.g = G2, !.is_modified = TRUE],
                      Start("expandAllLevels", n, "expanded", Cur))

\* Ctrl + double click on a node: extend_node_mouse_double_click_event
CtrlDoubleClick ==
    \E n \in VisibleNodes :
        LET child_nodes == get_child_nodes(Cur, n)
        IN  IF child_nodes = <<>> THEN Commit(Ed, NoTrail)
            ELSE IF node[n].is_folded
            THEN Commit([Ed EXCEPT !.g = expand_node(Cur, n).val],
                        FoldTrail("ctrlDoubleClick", n, "expand", Cur))
            ELSE Commit([Ed EXCEPT !.g = collapse_node(Cur, n, child_nodes).val],
                        FoldTrail("ctrlDoubleClick", n, "collapse", Cur))

----------------------------------------------------------------------------
(* Automatic layout: AutoLayoutAlgorithm in flowchart/advanced.py *)

\* AutoLayoutAlgorithm.__init__
horizontal_spacing == 100
level_height == 120

\* FlowchartNode.width: max(120, width of the text in the font + 40).  The
\* text "wide" stands for a line of text that makes a node 340 wide.  Both
\* widths are even, so the halves the layout takes are whole numbers.
NodeWidth(text) == IF text = "wide" THEN 340 ELSE 120

Width(G, n) == NodeWidth(G.node[n].node_text)

Max(a, b) == IF a >= b THEN a ELSE b

\* AutoLayoutAlgorithm._get_children
get_children(G, n) ==
    LET cs == SelectSeq(Items(G), LAMBDA it :
                  it.kind = "conn" /\ G.conn[it.id].start_node = n)
    IN  [i \in 1..Len(cs) |-> G.conn[cs[i].id].end_node]

\* AutoLayoutAlgorithm._calculate_tree_width; visited is the set the calls
\* share, and comes back with the nodes this call added
RECURSIVE calculate_tree_width(_, _, _)
calculate_tree_width(G, n, visited) ==
    IF n \in visited THEN [width |-> Width(G, n), visited |-> visited]
    ELSE LET children == get_children(G, n)
             RECURSIVE Sum(_, _, _)
             Sum(i, total, v) ==
                 IF i > Len(children) THEN [width |-> total, visited |-> v]
                 ELSE LET r == calculate_tree_width(G, children[i], v)
                      IN  Sum(i + 1, total + r.width, r.visited)
             s == Sum(1, 0, visited \cup {n})
             total_width == s.width + (IF Len(children) > 1
                                       THEN horizontal_spacing * (Len(children) - 1)
                                       ELSE 0)
         IN  IF children = <<>>
             THEN [width |-> Width(G, n), visited |-> visited \cup {n}]
             ELSE [width |-> Max(Width(G, n), total_width), visited |-> s.visited]

\* _calculate_tree_width called with no visited set
tree_width(G, n) == calculate_tree_width(G, n, {}).width

\* AutoLayoutAlgorithm._layout_subtree; calls is the sequence of node.setPos
\* calls made so far
RECURSIVE layout_subtree(_, _, _, _, _, _, _)
layout_subtree(G, n, x, y, width, visited, calls) ==
    IF n \in visited THEN [visited |-> visited, calls |-> calls]
    ELSE LET children == get_children(G, n)
             calls1 == Append(calls, [node |-> n, pos |-> <<x, y>>])
             RECURSIVE Place(_, _, _, _)
             Place(i, child_x, v, cl) ==
                 IF i > Len(children) THEN [visited |-> v, calls |-> cl]
                 ELSE LET child_width == tree_width(G, children[i])
                          r == layout_subtree(G, children[i],
                                              child_x + child_width \div 2,
                                              y + level_height, child_width, v, cl)
                      IN  Place(i + 1, child_x + child_width + horizontal_spacing,
                                r.visited, r.calls)
         IN  IF children = <<>>
             THEN [visited |-> visited \cup {n}, calls |-> calls1]
             ELSE Place(1, x - width \div 2 + Width(G, n) \div 2,
                        visited \cup {n}, calls1)

\* the nodes of scene.items(), in its order
NodeSeq(G) ==
    LET its == SelectSeq(Items(G), LAMBDA it : it.kind = "node")
    IN  [i \in 1..Len(its) |-> its[i].id]

\* apply_layout, lines 288-302: the nodes that no connection ends at, or the
\* first node if there is none
root_nodes(G) ==
    LET nodes == NodeSeq(G)
        roots == SelectSeq(nodes, LAMBDA n :
                     \A c \in DOMAIN G.conn : G.conn[c].end_node # n)
    IN  IF roots = <<>> THEN <<nodes[1]>> ELSE roots

\* apply_layout, lines 305-314: the setPos calls of a run, first root at first_x
RECURSIVE layoutRoots(_, _, _, _, _)
layoutRoots(G, roots, i, x_offset, calls) ==
    IF i > Len(roots) THEN calls
    ELSE LET w == tree_width(G, roots[i])
             r == layout_subtree(G, roots[i], x_offset, 0, w, {}, calls)
         IN  layoutRoots(G, roots, i + 1, x_offset + w + horizontal_spacing * 2,
                         r.calls)

\* node.setPos, call by call
RECURSIVE SetPositions(_, _)
SetPositions(G, calls) ==
    IF calls = <<>> THEN G
    ELSE SetPositions([G EXCEPT !.node[Head(calls).node].pos = Head(calls).pos],
                      Tail(calls))

\* apply_layout that starts each run one spacing right of where the first
\* root stands (a mutation of it)
layoutCallsFromRoot(G) ==
    layoutRoots(G, root_nodes(G), 1,
                G.node[root_nodes(G)[1]].pos[1] + horizontal_spacing, <<>>)

\* the setPos calls of AutoLayoutAlgorithm.apply_layout on a scene with nodes
layoutCalls(G) == layoutRoots(G, root_nodes(G), 1, 0, <<>>)

\* AutoLayoutAlgorithm.apply_layout
apply_layout(G) == IF DOMAIN G.node = {} THEN G ELSE SetPositions(G, layoutCalls(G))

\* ghost: a run of the layout starts a trail, or continues that of a run
LayoutTrail ==
    IF trail.ops # <<>> /\ trail.ops[Len(trail.ops)].op = "applyLayout"
    THEN Then("applyLayout", None, "laid")
    ELSE Start("applyLayout", None, "laid", Cur)

\* FlowchartEditor.auto_layout, from the toolbar
ApplyLayout ==
    IF DOMAIN node = {}
    THEN Commit(Ed, NoTrail)
    ELSE Commit([Ed EXCEPT !.g = apply_layout(Cur)], LayoutTrail)

----------------------------------------------------------------------------
(* Saving: save_flowchart and save_flowchart_as in flowchart/save_functions.py *)

\* node_to_id: the number a node gets, its place among the nodes of scene.items()
node_to_id(G, n) == CHOOSE i \in DOMAIN NodeSeq(G) : NodeSeq(G)[i] = n

\* data["nodes"] (lines 22-35)
SavedNodes(G) ==
    LET ns == NodeSeq(G)
    IN  [i \in DOMAIN ns |->
            [id |-> i, type |-> G.node[ns[i]].node_type, text |-> G.node[ns[i]].node_text,
             x |-> G.node[ns[i]].pos[1], y |-> G.node[ns[i]].pos[2],
             color |-> ColorName(G.node[ns[i]].color)]]

\* data["connections"] (lines 38-47)
SavedConns(G) ==
    LET cs == SelectSeq(Items(G), LAMBDA it :
                  /\ it.kind = "conn"
                  /\ G.conn[it.id].start_node \in DOMAIN G.node
                  /\ G.conn[it.id].end_node \in DOMAIN G.node)
    IN  [i \in DOMAIN cs |->
            [start |-> node_to_id(G, G.conn[cs[i].id].start_node),
             end |-> node_to_id(G, G.conn[cs[i].id].end_node),
             color |-> ColorName(G.conn[cs[i].id].color),
             width |-> G.conn[cs[i].id].width]]

\* save_flowchart with current_file set; written tells whether the file could
\* be written
save_flowchart(E, written) ==
    IF written
    THEN [E EXCEPT !.disk[E.current_file] =
                        FileContent("json", SavedNodes(E.g), SavedConns(E.g)),
                   !.is_modified = FALSE, !.status = "saved"]
    ELSE [E EXCEPT !.status = "save_error"]

\* save_flowchart_as; file_path is what the dialog returns, NoFile if it is
\* cancelled
save_flowchart_as(E, file_path, written) ==
    IF file_path = NoFile THEN E
    ELSE save_flowchart([E EXCEPT !.current_file = file_path], written)

\* ghost: a save that wrote the file starts a trail
SaveTrail(E) ==
    IF E.status = "saved" THEN Start("save", None, E.current_file, Cur) ELSE NoTrail

\* the toolbar's save button and Ctrl+S
SaveFlowchart ==
    \E file_path \in {NoFile, SavedPath}, written \in BOOLEAN :
        LET E1 == IF current_file = NoFile
                  THEN save_flowchart_as([Ed EXCEPT !.status = "ready"], file_path, written)
                  ELSE save_flowchart(Ed, written)
        IN  Commit(E1, SaveTrail(E1))

\* the toolbar's save-as button
SaveFlowchartAs ==
    \E file_path \in {NoFile, SavedPath}, written \in BOOLEAN :
        LET E1 == save_flowchart_as([Ed EXCEPT !.status = "ready"], file_path, written)
        IN  Commit(E1, SaveTrail(E1))

----------------------------------------------------------------------------
(* FlowchartEditor.openFlowchart *)

\* the keys of a node entry that the loop over data["nodes"] reads
NodeKeys == {"pos_x", "pos_y", "type", "text", "id"}

\* how many node entries are read before one lacks a key (KeyError)
RECURSIVE ReadableNodes(_, _)
ReadableNodes(entries, i) ==
    IF i > Len(entries) \/ ~(NodeKeys \subseteq DOMAIN entries[i]) THEN i - 1
    ELSE ReadableNodes(entries, i + 1)

\* the loop over data["nodes"] (lines 1740-1747), for the first k entries; the
\* nodes are created under the identities ids
RECURSIVE LoadNodes(_, _, _, _, _, _)
LoadNodes(G, entries, k, ids, i, nodes) ==
    IF i > k THEN [g |-> G, nodes |-> nodes]
    ELSE LET d == entries[i]
             color == IF "color" \in DOMAIN d THEN ColorOfName(d.color)
                      ELSE TypeColor(d.type)
             G1 == AddNodeItem(G, Head(ids),
                               NewNode(d.type, d.text, <<d.pos_x, d.pos_y>>, color))
         IN  LoadNodes(G1, entries, k, Tail(ids), i + 1,
                       (d.id :> Head(ids)) @@ [x \in DOMAIN nodes \ {d.id} |-> nodes[x]])

\* the loop over data["connections"] (lines 1750-1761): the connections it
\* makes, and whether an entry lacked a key it read
RECURSIVE LoadPlan(_, _, _, _)
LoadPlan(entries, nodes, i, made) ==
    IF i > Len(entries) THEN [raised |-> FALSE, made |-> made]
    ELSE LET d == entries[i]
         IN  IF "start_id" \notin DOMAIN d THEN [raised |-> TRUE, made |-> made]
             ELSE IF d.start_id \notin DOMAIN nodes
             THEN LoadPlan(entries, nodes, i + 1, made)
             ELSE IF "end_id" \notin DOMAIN d THEN [raised |-> TRUE, made |-> made]
             ELSE IF d.end_id \notin DOMAIN nodes
             THEN LoadPlan(entries, nodes, i + 1, made)
             ELSE LoadPlan(entries, nodes, i + 1,
                           Append(made, [d EXCEPT !.start_id = nodes[@],
                                                  !.end_id = nodes[@]]))

RECURSIVE LoadConns(_, _, _, _)
LoadConns(G, made, ids, hue) ==
    IF made = <<>> THEN G
    ELSE LET d == Head(made)
             c0 == NewConn(d.start_id, d.end_id, hue)
             c1 == IF "color" \in DOMAIN d
                   THEN [c0 EXCEPT !.color = ColorOfName(d.color),
                                   !.width = IF "width" \in DOMAIN d THEN d.width ELSE @]
                   ELSE c0
         IN  LoadConns(AddConnItem(G, Head(ids), c1), Tail(made), Tail(ids), hue)

\* openFlowchart from the except clause on
openFailed(E) == [E EXCEPT !.status = "open_error"]

\* openFlowchart past the loops (lines 1763-1776)
openDone(E) ==
    [E EXCEPT !.history = <<>>, !.history_index = -1, !.is_modified = FALSE,
              !.page = 1, !.status = "opened", !.recorded = CleanLog]

\* ghost: an attempt to open a file follows a save, or ends the trail
OpenTrail(file_path) ==
    IF Len(trail.ops) = 1 /\ trail.ops[1].op = "save"
    THEN Then("open", None, file_path)
    ELSE NoTrail

\* FlowchartEditor.openFlowchart; file_path is what the dialog returns
OpenFlowchart ==
    \/ /\ AsksToSave
       /\ \E reply \in {"Save", "Cancel"} : Commit(Ed, NoTrail)
    \/ \E file_path \in {NoFile} \cup {p \in Paths : disk[p].kind # "none"} :
          IF file_path = NoFile THEN Commit(Ed, NoTrail)
          ELSE
            LET data == disk[file_path]
                E0 == [Ed EXCEPT !.g = EmptyGraph]
                E1 == [E0 EXCEPT !.current_file = file_path]
                k == ReadableNodes(data.nodes, 1)
            IN  IF data.kind # "json"
                THEN Commit(openFailed(E0), OpenTrail(file_path))
                ELSE \E ids \in AllocSeqs(NodeIds, {}, HistoryNodeRefs(history), k) :
                        LET r == LoadNodes(EmptyGraph, data.nodes, k, ids, 1, EmptyMap)
                            plan == LoadPlan(data.connections, r.nodes, 1, <<>>)
                        IN  IF k < Len(data.nodes)
                            THEN Commit(openFailed([E1 EXCEPT !.g = r.g]),
                                        OpenTrail(file_path))
                            ELSE \E cids \in AllocSeqs(ConnIds, {}, HistoryConnRefs(history),
                                                       Len(plan.made)),
                                    hue \in AutoHues :
                                    LET G2 == LoadConns(r.g, plan.made, cids, hue)
                                        E2 == [E1 EXCEPT !.g = G2]
                                    IN  IF plan.raised
                                        THEN Commit(openFailed(E2), OpenTrail(file_path))
                                        ELSE Commit(openDone(E2), OpenTrail(file_path))

----------------------------------------------------------------------------
(* FileSearcher.__init__ and ImageViewer.__init__ *)

\* the file searcher with no search thread yet: the search button enabled,
\* the stop button disabled, an empty table, and the UI thread in its loop
InitialSearcher ==
    [search_thread |-> None,        \* FileSearcher.search_thread, by number
     pc |-> "none",                 \* where the thread is in run()
     stack |-> <<>>,                \* its search_files frames: [dir, i]
     running |-> FALSE,             \* FileSearchThread.running
     file_count |-> 0,
     dirs_to_scan |-> 0,
     dirs_scanned |-> 0,
     search_term |-> "",
     search_subdirs |-> FALSE,
     queue |-> <<>>,                \* signals posted to the UI thread
     ui |-> "loop",                 \* the UI thread: "loop", "wait", "aborted"
     table |-> <<>>,                \* the rows of the result table
     search_button |-> TRUE,
     stop_button |-> FALSE,
     timer |-> FALSE,               \* search_timer.isActive()
     progress |-> [value |-> 0, maximum |-> 100],
     message |-> "ready",           \* the status bar, by name
     found |-> 0,                   \* the count the status bar shows
     polled_stop |-> FALSE,         \* ghost: the thread has read running = False
     emitted |-> <<>>,              \* ghost: the signals the thread has emitted
     finished |-> <<>>,             \* ghost: runs of search_finished, per search
     late |-> 0]                    \* ghost: rows added after search_finished

\* the image browser before a folder is chosen
InitialViewer ==
    [current_folder |-> "",
     image_list |-> <<>>,           \* the items of the list: [file, icon]
     image_loader |-> None,         \* ImageViewer.image_loader, by number
     file_paths |-> <<>>,           \* ImageLoader.file_paths
     running |-> FALSE,             \* ImageLoader.running
     i |-> 0,                       \* the index of the loop of run()
     pc |-> "none",                 \* where the thread is in run()
     queue |-> <<>>,                \* signals posted to the UI thread
     ui |-> "loop",                 \* the UI thread: "loop" or "wait"
     loaders |-> 0]                 \* the loaders made so far

----------------------------------------------------------------------------
(* FlowchartEditor.__init__ *)

Init ==
    /\ scene = <<>>
    /\ node = EmptyMap
    /\ conn = EmptyMap
    /\ history = <<>>
    /\ history_index = -1
    /\ is_modified = FALSE
    /\ page = 0
    /\ status = "ready"
    /\ current_file = NoFile
    /\ disk = InitialDisk
    /\ recorded = CleanLog
    /\ trail = NoTrail
    /\ search = InitialSearcher
    /\ browser = InitialViewer

\* the bounds of a specification, on the state a step leads to
Within(maxNodes, maxConns, maxRecords, maxNodeId, maxConnId, maxCoord) ==
    /\ Cardinality(DOMAIN node') <= maxNodes
    /\ Cardinality(DOMAIN conn') <= maxConns
    /\ Len(history') <= maxRecords
    /\ DOMAIN node' \subseteq 1..maxNodeId
    /\ DOMAIN conn' \subseteq 1..maxConnId
    /\ \A n \in DOMAIN node' : \A k \in 1..2 :
          node'[n].pos[k] <= maxCoord /\ -maxCoord <= node'[n].pos[k]

----------------------------------------------------------------------------
(* The editor specification: nodes are added, connected and deleted one at *)
(* a time, and the log is walked back and forth                            *)

Bounded == Within(MaxNodes, MaxConns, MaxRecords, MaxNodeId, MaxConnId, MaxCoord)

Next ==
    \/ AddNode(NodeIds, {"minor"}, Texts, {}, {}) /\ Bounded
    \/ DrawConnection /\ Bounded
    \/ DeleteNode
    \/ DeleteConnection
    \/ Undo /\ Bounded
    \/ Redo /\ Bounded
    \/ NewFlowchart
    \/ ShowWelcomePage

Spec == Init /\ [][Next]_vars

----------------------------------------------------------------------------
(* Properties of the editor specification *)

\* the nodes that outgoing connections lead to from the nodes of S, S included
RECURSIVE ReachFrom(_, _)
ReachFrom(G, S) ==
    LET T == S \cup {G.conn[c].end_node : c \in {d \in DOMAIN G.conn :
                                                   G.conn[d].start_node \in S}}
    IN  IF T = S THEN S ELSE ReachFrom(G, T)

\* C1: in every graph, for every node n, a confirmed deleteNode(n) leaves a
\* scene without n, without any node that outgoing connections reach from n,
\* and without any connection that starts or ends at a removed node.
C1_DeleteNodeRemovesSubtree ==
    \A n \in DOMAIN node :
        LET r == deleteNode(Cur, n, "Yes")
            gone == ReachFrom(Cur, {n})
        IN  /\ ~r.raised
            /\ DOMAIN r.val.node \cap gone = {}
            /\ \A c \in DOMAIN r.val.conn :
                  /\ r.val.conn[c].start_node \notin gone
                  /\ r.val.conn[c].end_node \notin gone

\* the handlers that record an action in the log
RecordOps == {"addNode", "deleteSelected"}
JustRecorded(tr) == Len(tr.ops) = 1 /\ tr.ops[1].op \in RecordOps

\* C3: after an add-node action that created node n, undo leaves the graph
\* without n; a redo that follows puts a node back at n's original position
\* with n's original text and type.
C3_UndoRemovesAddedNode ==
    /\ (/\ Len(trail.ops) >= 2
        /\ trail.ops[1].op = "addNode"
        /\ trail.ops[2].op = "undo")
       => \/ trail.ops[1].arg \notin DOMAIN node
          \/ Len(trail.ops) >= 3
    /\ (/\ Len(trail.ops) = 3
        /\ trail.ops[1].op = "addNode"
        /\ trail.ops[2].op = "undo"
        /\ trail.ops[3].op = "redo")
       => LET d == history[history_index + 1]
          IN  \E m \in DOMAIN node :
                 /\ node[m].pos = d.node_pos
                 /\ node[m].node_text = d.node_text
                 /\ node[m].node_type = d.node_type

\* C26: after an add-node action, an undo that removed the node, a redo and
\* another undo that was not declined, the graph holds neither the node that
\* was added nor the node that the redo made.
C26_UndoAfterRedo ==
    (/\ Len(trail.ops) = 4
     /\ trail.ops[1].op = "addNode"
     /\ trail.ops[2].op = "undo" /\ trail.ops[2].out = "Yes"
     /\ trail.ops[3].op = "redo" /\ trail.ops[3].out = "added"
     /\ trail.ops[4].op = "undo" /\ trail.ops[4].out \in {"Yes", "gone"})
    => /\ trail.ops[1].arg \notin DOMAIN node
       /\ trail.ops[3].arg \notin DOMAIN node

\* C27: after two add-node actions of which the second added a child of the
\* first node, two undos that removed the nodes and two redos, both nodes are
\* back and so is the connection from the parent to the child.
C27_RedoAllRestoresTree ==
    (/\ Len(trail.ops) = 5
     /\ trail.ops[1].op = "addNode"
     /\ trail.ops[2].op = "undo" /\ trail.ops[2].out = "Yes"
     /\ trail.ops[3].op = "undo" /\ trail.ops[3].out = "Yes"
     /\ trail.ops[4].op = "redo" /\ trail.ops[4].out = "added"
     /\ trail.ops[5].op = "redo" /\ trail.ops[5].out = "added"
     /\ Len(history) = 2
     /\ history[2].type = "add_node"
     /\ history[2].node_id = trail.ops[1].arg
     /\ history[2].parent_node_id = trail.ops[3].arg)
    => LET parent == trail.ops[4].arg
           child == trail.ops[5].arg
       IN  /\ parent \in DOMAIN node
           /\ child \in DOMAIN node
           /\ \E c \in DOMAIN conn :
                  conn[c].start_node = parent /\ conn[c].end_node = child

\* C4: a record made in the open document while the index is before the last
\* entry discards the entries after the index and is appended to the rest,
\* the index then being at the last entry; a redo straight after a record
\* changes nothing.
C4_RecordTruncates ==
    [][/\ (JustRecorded(trail') /\ page = 1)
          => LET kept == SubSeq(history, 1, history_index + 1)
                 full == Append(kept, history'[Len(history')])
             IN  /\ history' # <<>>
                 /\ history' = (IF Len(full) > max_history THEN Tail(full) ELSE full)
                 /\ history_index' = Len(history') - 1
       /\ (JustRecorded(trail) /\ Redo)
          => UNCHANGED <<scene, node, conn, history, history_index, is_modified>>
      ]_vars

\* a record was appended after an undo, discarding what followed the index
\* and keeping what preceded it, and a redo was then refused
C4_Witness ==
    /\ recorded.cut > 0
    /\ Len(history) > 1
    /\ history_index = Len(history) - 1
    /\ status = "nothing_to_redo"

\* C7: undo with the index below 0, and redo with the index at the last
\* record or with an empty log, leave the graph, the log, the index and the
\* modified flag as they were.
C7_RefusedUndoRedo ==
    [][(\/ history_index < 0 /\ Undo
        \/ history_index >= Len(history) - 1 /\ Redo)
       => UNCHANGED <<scene, node, conn, history, history_index, is_modified>>
      ]_vars

\* an undo was refused although the log holds records and the scene nodes
C7_Witness ==
    /\ status = "nothing_to_undo"
    /\ history # <<>>
    /\ scene # <<>>

\* C8: getAllChildNodes returns on every graph, cyclic ones included, and
\* names no node twice in its result.
C8_DescendantsOnce ==
    \A n \in DOMAIN node :
        LET r == getAllChildNodes(Cur, n, 0)
        IN  ~r.raised /\ NoDuplicates(r.val)

----------------------------------------------------------------------------
(* The selection specification: the editor specification with deleteSelected *)

SelBounded ==
    Within(MaxSelNodes, MaxSelConns, MaxSelRecords, MaxSelNodeId, MaxSelConnId, MaxCoord)

SelNext ==
    \/ AddNode(NodeIds, {"minor"}, Texts, {}, {}) /\ SelBounded
    \/ DrawConnection /\ SelBounded
    \/ DeleteNode
    \/ DeleteConnection
    \/ DeleteSelected /\ SelBounded
    \/ Undo /\ SelBounded
    \/ Redo /\ SelBounded

SelSpec == Init /\ [][SelNext]_vars

----------------------------------------------------------------------------
(* Properties of the selection specification *)

\* C2: in every state reached by adding nodes and child nodes, drawing
\* connections, deleting the selection, a node or a connection, undo and redo,
\* every connection of the scene has its start node and its end node in the
\* scene.
C2_NoDanglingConnection ==
    \A c \in DOMAIN conn :
        /\ conn[c].start_node \in DOMAIN node
        /\ conn[c].end_node \in DOMAIN node

\* a deleted selection has been undone, and the scene holds a connection again
C2_Witness ==
    /\ Len(trail.ops) = 2
    /\ trail.ops[1].op = "deleteSelected"
    /\ trail.ops[2].out = "restored"
    /\ DOMAIN trail.g.conn # {}
    /\ DOMAIN conn # {}

\* the two graphs have the same nodes by type, text, position and colour, and
\* the same pairs of connected nodes
SameGraph(G1, G2) ==
    \E f \in [DOMAIN G1.node -> DOMAIN G2.node] :
        /\ \A a, b \in DOMAIN G1.node : a # b => f[a] # f[b]
        /\ {f[a] : a \in DOMAIN G1.node} = DOMAIN G2.node
        /\ \A a \in DOMAIN G1.node :
              /\ G1.node[a].node_type = G2.node[f[a]].node_type
              /\ G1.node[a].node_text = G2.node[f[a]].node_text
              /\ G1.node[a].pos = G2.node[f[a]].pos
              /\ G1.node[a].color = G2.node[f[a]].color
        /\ {<<f[G1.conn[c].start_node], f[G1.conn[c].end_node]>> : c \in DOMAIN G1.conn}
           = {<<G2.conn[c].start_node, G2.conn[c].end_node>> : c \in DOMAIN G2.conn}

\* C6: for every graph and every selection of nodes and connections, a
\* deleteSelected whose deletions are all confirmed, followed by undo, yields
\* a graph with the same nodes (type, text, position, colour) and the same
\* pairs of connected nodes as before the delete.
C6_UndoReversesDelete ==
    (/\ Len(trail.ops) = 2
     /\ trail.ops[1].op = "deleteSelected"
     /\ trail.ops[1].out = "Yes"
     /\ trail.ops[2].op = "undo")
    => SameGraph(trail.g, Cur)

\* C17: a deleteSelected of nodes whose confirmation boxes are all declined,
\* and an undo of an add-node record whose confirmation box is declined, leave
\* the graph, the log, its index and the modified flag as they were.
C17_DeclinedPromptChangesNothing ==
    [][(\/ /\ DeleteSelected
           /\ Len(trail'.ops) = 1
           /\ trail'.ops[1].op = "deleteSelected"
           /\ trail'.ops[1].out = "Declined"
        \/ /\ Undo
           /\ trail'.ops # <<>>
           /\ trail'.ops[Len(trail'.ops)].op = "undo"
           /\ trail'.ops[Len(trail'.ops)].out = "No")
       => UNCHANGED <<scene, node, conn, history, history_index, is_modified>>
      ]_vars

----------------------------------------------------------------------------
(* The log specification: nodes are added from the toolbar until the log   *)
(* has passed its capacity; nothing is undone                              *)

LogBounded ==
    Within(MaxLogAdds, MaxLogConns, MaxLogAdds, MaxLogAdds, MaxLogConns, MaxCoord)

LogNext ==
    \/ AddNode({}, {"minor"}, Texts, {}, {}) /\ LogBounded
    \/ Cardinality(DOMAIN conn) < MaxLogConns /\ DrawConnection /\ LogBounded
    \/ NewFlowchart
    \/ ShowWelcomePage

LogSpec == Init /\ [][LogNext]_vars

\* the last k elements of s
LastN(s, k) == SubSeq(s, Len(s) - k + 1, Len(s))

\* C5: the log never holds more than max_history records; after k records
\* with no undo in between it holds the min(k, max_history) most recent of
\* them, in the order they were made.
C5_LogCapped ==
    /\ Len(history) <= max_history
    /\ recorded.no_undo =>
          history = LastN(recorded.log,
                          IF Len(recorded.log) < max_history
                          THEN Len(recorded.log) ELSE max_history)

\* more records have been made than the log holds, none of them undone
C5_Witness ==
    /\ recorded.no_undo
    /\ Len(recorded.log) > max_history
    /\ Len(history) = max_history
    /\ status = "added"

----------------------------------------------------------------------------
(* The index specification: from an empty editor and from one whose log is *)
(* one record short of its capacity, nodes are added from the toolbar, the *)
(* newest records are undone and redone, and documents are begun and       *)
(* opened                                                                  *)

MaxUndoDepth == 1   \* records between the index and the end of the log
MaxStrayNodes == 1  \* nodes in the scene beyond one for each record done
MaxShortLog == 2    \* length of a log that is not within one of its capacity

\* the editor as FlowchartEditor.__init__ leaves it
InitialEditor ==
    [g |-> [scene |-> <<>>, node |-> EmptyMap, conn |-> EmptyMap],
     history |-> <<>>, history_index |-> -1, is_modified |-> FALSE, page |-> 0,
     status |-> "ready", current_file |-> NoFile, disk |-> InitialDisk,
     recorded |-> CleanLog]

\* the editor after k nodes were added from the toolbar, the first of them
\* from the welcome page; the nodes have the identities 1..k
RECURSIVE AfterAdds(_)
AfterAdds(k) ==
    IF k = 0 THEN newFlowchartBody(InitialEditor)
    ELSE addNodeBody(AfterAdds(k - 1), None, NoPos, "minor", "a", TypeColor("minor"),
                     k, None, "hue1")

\* the variables hold the editor E and the trail tr
StartsAs(E, tr) ==
    /\ scene = E.g.scene
    /\ node = E.g.node
    /\ conn = E.g.conn
    /\ history = E.history
    /\ history_index = E.history_index
    /\ is_modified = E.is_modified
    /\ page = E.page
    /\ status = E.status
    /\ current_file = E.current_file
    /\ disk = E.disk
    /\ recorded = E.recorded
    /\ trail = tr
    /\ search = InitialSearcher
    /\ browser = InitialViewer

IndexInit ==
    \/ Init
    \/ StartsAs(AfterAdds(max_history - 1),
                [ops |-> <<Step("addNode", max_history - 1, "Accepted")>>,
                 g |-> AfterAdds(max_history - 2).g])

IndexBounded ==
    /\ Within(MaxLogAdds, MaxLogConns, MaxLogAdds, MaxLogAdds, MaxLogConns, MaxCoord)
    /\ history_index' >= Len(history') - 1 - MaxUndoDepth
    /\ Cardinality(DOMAIN node') <= history_index' + 1 + MaxStrayNodes
    /\ Len(history') <= MaxShortLog \/ Len(history') >= max_history - 1

IndexNext ==
    \/ AddNode({}, {"minor"}, Texts, {}, {}) /\ IndexBounded
    \/ Undo /\ IndexBounded
    \/ Redo /\ IndexBounded
    \/ NewFlowchart /\ IndexBounded
    \/ OpenFlowchart /\ Len(history) <= MaxShortLog /\ IndexBounded

IndexSpec == IndexInit /\ [][IndexNext]_vars

\* C25: in every state the index is at least -1 and at most the position of
\* the last record, and the log holds at most max_history records.
C25_IndexWithinLog ==
    /\ -1 <= history_index
    /\ history_index <= Len(history) - 1
    /\ Len(history) <= max_history

\* the newest record of a full log that has dropped its first record was
\* undone
C25_Witness ==
    /\ Len(history) = max_history
    /\ history[1].node_id # 1
    /\ history_index = max_history - 2
    /\ status = "undone"

----------------------------------------------------------------------------
(* The fold specification: trees are grown node by node, and their nodes   *)
(* are folded and expanded                                                 *)

FoldBounded ==
    Within(MaxFoldNodes, MaxFoldConns, MaxFoldNodes, MaxFoldNodes, MaxFoldConns,
           MaxFoldCoord)

FoldNext ==
    \/ AddNode(NodeIds, {"minor"}, Texts, {}, {}) /\ FoldBounded
    \/ ToggleFold
    \/ FoldAllLevels
    \/ ExpandAllLevels
    \/ CtrlDoubleClick

FoldSpec == Init /\ [][FoldNext]_vars

\* the nodes that outgoing connections lead to from n
Descendants(G, n) == ReachFrom(G, Range(get_child_nodes(G, n)))

\* C9: folding a node n, one level or all levels, and then expanding n gives
\* every descendant of n the visibility it had before the fold.
C9_FoldExpandRestores ==
    (/\ Len(trail.ops) = 2
     /\ trail.ops[1].out \in {"collapse", "fold_all"}
     /\ trail.ops[2].out = "expand"
     /\ trail.ops[2].arg = trail.ops[1].arg)
    => \A d \in Descendants(trail.g, trail.ops[1].arg) :
          node[d].visible = trail.g.node[d].visible

\* C10: after fold-all-levels on a node A and then toggleFold(A), every
\* child of A is visible, every grandchild of A is hidden, and every child
\* of A that has children is marked folded.
C10_FoldAllThenExpandOneLevel ==
    (/\ Len(trail.ops) = 2
     /\ trail.ops[1].out = "fold_all"
     /\ trail.ops[2].op = "toggleFold"
     /\ trail.ops[2].out = "expand"
     /\ trail.ops[2].arg = trail.ops[1].arg)
    => LET A == trail.ops[1].arg
           children == Range(get_child_nodes(Cur, A))
       IN  \A B \in children :
              /\ node[B].visible
              /\ \A D \in Range(get_child_nodes(Cur, B)) \ (children \cup {A}) :
                    ~node[D].visible
              /\ get_child_nodes(Cur, B) # <<>> => node[B].is_folded

\* C20: toggleFold on an unfolded node with more than one level of
\* descendants asks its three-way question, and when the answer is Cancel
\* the visibility of every node and of every connection and the fold flag of
\* every node are as they were before.
C20_CancelledFoldChangesNothing ==
    (/\ Len(trail.ops) = 1
     /\ trail.ops[1].op = "toggleFold"
     /\ trail.ops[1].out = "cancel")
    => /\ HasDeeperLevels(trail.g, trail.ops[1].arg)
       /\ ~trail.g.node[trail.ops[1].arg].is_folded
       /\ \A m \in DOMAIN trail.g.node :
              /\ m \in DOMAIN node
              /\ node[m].visible = trail.g.node[m].visible
              /\ node[m].is_folded = trail.g.node[m].is_folded
       /\ \A c \in DOMAIN trail.g.conn :
              /\ c \in DOMAIN conn
              /\ conn[c].visible = trail.g.conn[c].visible
       /\ DOMAIN node = DOMAIN trail.g.node
       /\ DOMAIN conn = DOMAIN trail.g.conn

\* the question was answered with Cancel on a node whose children have
\* children, after another node of the tree was folded
C20_Witness ==
    /\ Len(trail.ops) = 1
    /\ trail.ops[1].op = "toggleFold"
    /\ trail.ops[1].out = "cancel"
    /\ \E m \in DOMAIN node : node[m].is_folded
    /\ \E m \in DOMAIN node : ~node[m].visible

\* C28: after expandAllLevels on a folded node n, n and its descendants are
\* marked unfolded, every descendant of n is shown, and every connection
\* from n or from a descendant of n to a descendant of n is shown.
C28_ExpandAllShowsSubtree ==
    (/\ Len(trail.ops) = 1
     /\ trail.ops[1].op = "expandAllLevels")
    => LET n == trail.ops[1].arg
           below == Descendants(Cur, n)
       IN  /\ ~node[n].is_folded
           /\ \A d \in below : node[d].visible /\ ~node[d].is_folded
           /\ \A c \in DOMAIN conn :
                  (conn[c].start_node \in below \cup {n} /\ conn[c].end_node \in below)
                  => conn[c].visible

----------------------------------------------------------------------------
(* The fold-and-draw specification: graphs are built from added nodes and  *)
(* from drawn connections, and their nodes are folded and expanded one     *)
(* level at a time                                                         *)

MaxDrawNodes == 3   \* nodes in the scene, fold-and-draw specification
MaxDrawConns == 2   \* connections in the scene, fold-and-draw specification

DrawBounded ==
    Within(MaxDrawNodes, MaxDrawConns, MaxDrawNodes, MaxDrawNodes, MaxDrawConns,
           MaxFoldCoord)

DrawNext ==
    \/ AddNode(NodeIds, {"minor"}, Texts, {}, {}) /\ DrawBounded
    \/ DrawConnection /\ DrawBounded
    \/ ToggleFold
    \/ CtrlDoubleClick

DrawSpec == Init /\ [][DrawNext]_vars

\* C23: a one-level fold of an unfolded node n with children leaves n marked
\* folded, every child of n hidden, every connection from n to a child
\* hidden, and for each child the visibility it had before the fold on
\* record; every node other than n and its children keeps its visibility and
\* its fold flag, n keeps its visibility, and every other connection keeps
\* its visibility.
C23_FoldOneLevel ==
    (/\ Len(trail.ops) = 1
     /\ trail.ops[1].out = "collapse")
    => LET n == trail.ops[1].arg
           G == trail.g
           children == Range(get_child_nodes(G, n))
       IN  /\ node[n].is_folded
           /\ \A k \in children : ~node[k].visible
           /\ \A c \in DOMAIN conn :
                  IF conn[c].start_node = n /\ conn[c].end_node \in children
                  THEN ~conn[c].visible
                  ELSE conn[c].visible = G.conn[c].visible
           /\ DOMAIN node[n].children_visibility = children
           /\ \A k \in children : node[n].children_visibility[k] = G.node[k].visible
           /\ \A m \in DOMAIN node \ children :
                  /\ node[m].visible = G.node[m].visible
                  /\ m # n => node[m].is_folded = G.node[m].is_folded

\* C24: after the expansion of a folded node n, each child on n's record has
\* the visibility on record, and a connection from n to such a child is
\* shown only if the child is shown.
C24_ExpandShowsConnectionWithChild ==
    (/\ trail.ops # <<>>
     /\ trail.ops[Len(trail.ops)].out = "expand")
    => LET n == trail.ops[Len(trail.ops)].arg
           cv == node[n].children_visibility
       IN  /\ ~node[n].is_folded
           /\ \A k \in DOMAIN cv \cap DOMAIN node : node[k].visible = cv[k]
           /\ \A c \in DOMAIN conn :
                  (/\ conn[c].start_node = n
                   /\ conn[c].end_node \in DOMAIN cv
                   /\ conn[c].visible)
                  => node[conn[c].end_node].visible

----------------------------------------------------------------------------
(* The layout specification: graphs are built from nodes of two widths and *)
(* from drawn connections, and laid out                                    *)

MaxLayoutNodes == 3     \* nodes in the scene, layout specification
MaxLayoutConns == 3     \* connections in the scene, layout specification
MaxLayoutCoord == 3000  \* |x| and |y| of a node position, layout specification

LayoutTexts == {"a", "wide"}

LayoutBounded ==
    Within(MaxLayoutNodes, MaxLayoutConns, MaxLayoutNodes, MaxLayoutNodes,
           MaxLayoutConns, MaxLayoutCoord)

LayoutNext ==
    \/ AddNode(NodeIds, {"minor"}, LayoutTexts, {}, {}) /\ LayoutBounded
    \/ DrawConnection /\ LayoutBounded
    \/ ApplyLayout /\ LayoutBounded

LayoutSpec == Init /\ [][LayoutNext]_vars

\* the last handler was a run of the layout
LayoutRan == trail.ops # <<>> /\ trail.ops[Len(trail.ops)].op = "applyLayout"

\* C11: a run of apply_layout that follows a run of it, with no change to the
\* nodes and connections in between, leaves every node where it was.
C11_LayoutIdempotent ==
    [][(LayoutRan /\ ApplyLayout) => UNCHANGED <<scene, node, conn>>]_vars

\* the layout has run twice on a graph with a connection, and the first run
\* moved a node
C11_Witness ==
    /\ Len(trail.ops) = 2
    /\ trail.ops[1].op = "applyLayout"
    /\ trail.ops[2].op = "applyLayout"
    /\ DOMAIN conn # {}
    /\ \E n \in DOMAIN node : node[n].pos # trail.g.node[n].pos

\* C13: a run of apply_layout sets the position of each node at most once.
\* (That it returns on every graph is what its definition here shows: each
\* recursion adds a node to a visited set.)
C13_LayoutSetsEachNodeOnce ==
    [][ApplyLayout =>
          \/ DOMAIN node = {}
          \/ LET calls == layoutCalls(Cur)
             IN  NoDuplicates([i \in DOMAIN calls |-> calls[i].node])]_vars

RECURSIVE SumWidths(_, _, _)
SumWidths(G, ns, i) ==
    IF i > Len(ns) THEN 0 ELSE tree_width(G, ns[i]) + SumWidths(G, ns, i + 1)

\* no node reaches itself along connections
Acyclic(G) == \A n \in DOMAIN G.node : n \notin Descendants(G, n)

\* C14: the width the layout reserves for a node (the width its subtree is
\* positioned with) is the node's own width if it has no children, and else
\* the larger of its own width and the sum of the widths reserved for its
\* children plus horizontal_spacing between neighbours.  (Stated for graphs
\* without a cycle: on a cycle no widths satisfy the equation.)
C14_SubtreeWidth ==
    (LayoutRan /\ Acyclic(Cur)) =>
        \A n \in DOMAIN node :
            LET children == get_children(Cur, n)
            IN  tree_width(Cur, n) =
                    IF children = <<>> THEN Width(Cur, n)
                    ELSE Max(Width(Cur, n),
                             SumWidths(Cur, children, 1)
                             + horizontal_spacing * (Len(children) - 1))

----------------------------------------------------------------------------
(* The tree specification: trees are grown node by node, from nodes of two *)
(* widths, and laid out                                                    *)

MaxTreeNodes == 5       \* nodes in the scene, tree specification
MaxTreeCoord == 3000    \* |x| and |y| of a node position, tree specification

MaxTreeRoots == 1       \* nodes without a parent, tree specification

TreeBounded ==
    /\ Within(MaxTreeNodes, MaxTreeNodes, MaxTreeNodes, MaxTreeNodes, MaxTreeNodes,
              MaxTreeCoord)
    /\ Cardinality({n \in DOMAIN node' :
                       \A c \in DOMAIN conn' : conn'[c].end_node # n}) <= MaxTreeRoots

TreeNext ==
    \/ AddNode(NodeIds, {"minor"}, LayoutTexts, {}, {}) /\ TreeBounded
    \/ ApplyLayout /\ TreeBounded

TreeSpec == Init /\ [][TreeNext]_vars

\* every node has at most one incoming connection and no node reaches itself
IsTree(G) ==
    /\ \A c, d \in DOMAIN G.conn :
          G.conn[c].end_node = G.conn[d].end_node => c = d
    /\ Acyclic(G)

\* C12: after apply_layout on a tree, two different nodes on the same level
\* have disjoint horizontal extents [x - width/2, x + width/2].
C12_NoOverlapOnLevel ==
    (LayoutRan /\ IsTree(Cur)) =>
        \A a, b \in DOMAIN node :
            (a # b /\ node[a].pos[2] = node[b].pos[2]) =>
                \/ node[a].pos[1] + Width(Cur, a) \div 2
                      < node[b].pos[1] - Width(Cur, b) \div 2
                \/ node[b].pos[1] + Width(Cur, b) \div 2
                      < node[a].pos[1] - Width(Cur, a) \div 2

\* the left and the right end of the horizontal extents of the nodes of S
LeftEnd(G, S) ==
    LET ends == {G.node[n].pos[1] - Width(G, n) \div 2 : n \in S}
    IN  CHOOSE e \in ends : \A f \in ends : e <= f

RightEnd(G, S) ==
    LET ends == {G.node[n].pos[1] + Width(G, n) \div 2 : n \in S}
    IN  CHOOSE e \in ends : \A f \in ends : e >= f

\* C22: after apply_layout on a forest with several roots, the subtrees of
\* two roots that follow each other lie side by side: the nodes of the later
\* one begin at least twice horizontal_spacing to the right of where the
\* nodes of the earlier one end, so the extents of no two subtrees intersect.
C22_RootSubtreesSideBySide ==
    (LayoutRan /\ IsTree(Cur)) =>
        LET roots == root_nodes(Cur)
        IN  \A i \in 1..(Len(roots) - 1) :
                RightEnd(Cur, ReachFrom(Cur, {roots[i]})) + horizontal_spacing * 2
                    <= LeftEnd(Cur, ReachFrom(Cur, {roots[i + 1]}))

----------------------------------------------------------------------------
(* The file specification: documents are built, saved and opened *)

MaxFileNodes == 2       \* nodes in the scene, file specification
MaxFileConns == 2       \* connections in the scene, file specification
MaxFileRecords == 2     \* length of the log, file specification

FileBounded ==
    Within(MaxFileNodes, MaxFileConns, MaxFileRecords, MaxFileNodes + 1,
           MaxFileConns + 1, MaxCoord)

FileNext ==
    \/ AddNode(NodeIds, {"minor"}, Texts, {}, {}) /\ FileBounded
    \/ SaveFlowchart
    \/ SaveFlowchartAs
    \/ OpenFlowchart /\ FileBounded

FileSpec == Init /\ [][FileNext]_vars

\* C15: a graph that is saved and then loaded from the saved file with
\* openFlowchart is the same graph again: the same nodes by type, text,
\* position and colour, and the same pairs of connected nodes.
C15_SaveOpenRoundTrip ==
    (/\ Len(trail.ops) = 2
     /\ trail.ops[1].op = "save"
     /\ trail.ops[2].op = "open"
     /\ trail.ops[2].out = trail.ops[1].out)
    => SameGraph(trail.g, Cur)

\* C16: an openFlowchart that fails (the file cannot be read, is not JSON, or
\* lacks a field) leaves the nodes and connections of the scene, the current
\* file, the log with its index and the modified flag as they were.
C16_FailedOpenChangesNothing ==
    [][(OpenFlowchart /\ status' = "open_error")
       => UNCHANGED <<scene, node, conn, current_file, history, history_index,
                      is_modified>>]_vars

\* C18: no connection of the scene starts and ends at the same node, and none
\* has an end that is not in the scene, whatever was drawn, undone, redone or
\* loaded.
C18_NoSelfOrDanglingConnection ==
    \A c \in DOMAIN conn :
        /\ conn[c].start_node # conn[c].end_node
        /\ conn[c].start_node \in DOMAIN node
        /\ conn[c].end_node \in DOMAIN node

----------------------------------------------------------------------------
(* The style specification: a document with connections is opened, line    *)
(* styles are set, items are deleted, and the log is walked back and forth *)

MaxStyleNodes == 2      \* nodes in the scene, style specification
MaxStyleConns == 2      \* connections in the scene, style specification
MaxStyleRecords == 2    \* length of the log, style specification
MaxStyleConnId == 3     \* connection identities in use, style specification

StyleBounded ==
    Within(MaxStyleNodes, MaxStyleConns, MaxStyleRecords, MaxStyleNodes,
           MaxStyleConnId, MaxCoord)

\* a document is opened before the first recorded edit, and only
\* connections are deleted
StyleNext ==
    \/ OpenFlowchart /\ history = <<>> /\ StyleBounded
    \/ SetLineStyle /\ StyleBounded
    \/ DeleteSelected /\ DOMAIN node' = DOMAIN node /\ StyleBounded
    \/ Undo /\ StyleBounded
    \/ Redo /\ StyleBounded

StyleSpec == Init /\ [][StyleNext]_vars

\* the connections of a graph by their ends, colour and width
Styles(G) ==
    {<<G.conn[c].start_node, G.conn[c].end_node, G.conn[c].color, G.conn[c].width>> :
        c \in DOMAIN G.conn}

\* the names of the handlers of a trail
OpsOf(tr) == [i \in DOMAIN tr.ops |-> tr.ops[i].op]

\* C19: the undo of a change-line-style record gives each connection the
\* colour and the width it had before the change, and the redo of the record
\* gives it the new ones; the undo does so too when the connection was
\* deleted and the deletion undone after the change.
C19_StyleUndoRestores ==
    /\ (OpsOf(trail) = <<"setLineStyle", "undo">>)
          => Styles(Cur) = Styles(trail.g)
    /\ (OpsOf(trail) = <<"setLineStyle", "undo", "redo">>)
          => LET cds == history[history_index + 1].connections
             IN  \A i \in DOMAIN cds :
                    /\ cds[i].connection_id \in DOMAIN conn
                    /\ conn[cds[i].connection_id].color = ColorOfName(cds[i].new_color)
                    /\ conn[cds[i].connection_id].width = cds[i].new_width
    /\ (/\ OpsOf(trail) = <<"setLineStyle", "deleteSelected", "undo", "undo">>
        /\ trail.ops[2].out = "Yes"
        /\ DOMAIN node = DOMAIN trail.g.node)
          => Styles(Cur) = Styles(trail.g)

----------------------------------------------------------------------------
(* The file searcher: a FileSearchThread walks a directory tree and posts  *)
(* what it finds to the UI thread, which the user can tell to stop it      *)

MaxSearches == 2        \* searches started, search specification
MaxDirsCounted == 1000  \* directories run() counts before it stops counting

\* the text of the path field: a directory, or something that is none
SearchPath == "root"
SearchPaths == {SearchPath, "nowhere"}
\* the text of the search field
Terms == {<<>>, <<"A">>}

\* os.listdir of each directory that can be read; an entry has its name, what
\* os.path.isfile / isdir say of it, and os.path.join(directory, name)
Listing ==
    [root |-> << [name |-> <<"a", "1">>, kind |-> "file", path |-> "root/a1"],
                 [name |-> <<"s", "u", "b">>, kind |-> "dir", path |-> "sub"],
                 [name |-> <<"b", "1">>, kind |-> "file", path |-> "root/b1"] >>,
     sub |-> << [name |-> <<"A", "2">>, kind |-> "file", path |-> "sub/A2"],
                [name |-> <<"l", "o", "c", "k">>, kind |-> "dir", path |-> "locked"],
                [name |-> <<"d", "e", "e", "p">>, kind |-> "dir", path |-> "deep"] >>,
     deep |-> << [name |-> <<"a", "3">>, kind |-> "file", path |-> "deep/a3"] >>]

\* str.lower(), on the letters the names and terms are made of
Lower(str) ==
    [k \in DOMAIN str |-> IF str[k] = "A" THEN "a" ELSE IF str[k] = "B" THEN "b" ELSE str[k]]

\* term in str, for strings as sequences of characters
In(term, str) ==
    \E k \in 1..(Len(str) - Len(term) + 1) : SubSeq(str, k, k + Len(term) - 1) = term

\* the directories os.walk yields from d on: those it can list
RECURSIVE Walk(_)
Walk(d) ==
    IF d \in DOMAIN Listing
    THEN {d} \cup UNION {Walk(Listing[d][k].path) :
                            k \in {j \in DOMAIN Listing[d] : Listing[d][j].kind = "dir"}}
    ELSE {}

\* QThread.isRunning(): from start() until run() has returned
isRunning(S) == S.pc \notin {"none", "finished"}

\* signal.emit(...) in run(): the thread object lives in the UI thread, so the
\* call of each connected slot is posted to the UI thread's event queue
Emit(S, sig, arg) ==
    [S EXCEPT !.queue = Append(@, [sig |-> sig, arg |-> arg, of |-> S.search_thread]),
              !.emitted = Append(@, [sig |-> sig, late |-> S.polled_stop])]

\* the frame search_files is in
Frame(S) == S.stack[Len(S.stack)]

\* search_files returns: its caller goes on, and run() goes on to emit
\* search_completed when the outermost call returns
Return(S) ==
    LET callers == SubSeq(S.stack, 1, Len(S.stack) - 1)
    IN  [S EXCEPT !.stack = callers,
                  !.pc = IF callers = <<>> THEN "completed" ELSE "files"]

\* a loop that never leaves on the flag
NeverStopping(S) == FALSE

\* "if not self.running" at the top of the loop over the entries
Stopping(S) == ~S.running

\* FileSearchThread.stop
stop(S) == [S EXCEPT !.running = FALSE]

\* FileSearcher.search_finished(count)
search_finished(S, count) ==
    [S EXCEPT !.timer = FALSE, !.search_button = TRUE, !.stop_button = FALSE,
              !.message = "finished", !.found = count,
              !.progress.value = S.progress.maximum]

\* FileSearcher.add_file_to_table, with the search the row came from
add_file_to_table(S, ev) ==
    [S EXCEPT !.table = Append(@, [name |-> ev.arg, of |-> ev.of])]

\* FileSearcher.update_progress(current, total)
update_progress(S, current, total) ==
    IF total > 0 THEN [S EXCEPT !.progress = [value |-> current, maximum |-> total]]
    ELSE S

\* a step of the file searcher leaves the editor and the browser alone
Searcher(S) ==
    /\ search' = S
    /\ UNCHANGED <<scene, node, conn, history, history_index, is_modified, page,
                   status, current_file, disk, recorded, trail, browser>>

\* FileSearchThread.run up to the call of search_files: the directories are
\* counted without a look at the flag
Run ==
    /\ search.pc = "run"
    /\ search.ui # "aborted"
    /\ LET walked == Cardinality(Walk(SearchPath))
           counted == IF ~search.search_subdirs THEN 1
                      ELSE IF walked > MaxDirsCounted THEN MaxDirsCounted + 1
                      ELSE walked
       IN  Searcher([search EXCEPT !.dirs_to_scan = counted,
                                   !.stack = <<[dir |-> SearchPath, i |-> 0]>>,
                                   !.pc = "files"])

\* search_files(directory) up to its loop: os.listdir, and the progress signal;
\* a directory that cannot be listed raises, which search_files catches
ListDirectory ==
    /\ search.pc = "files"
    /\ search.ui # "aborted"
    /\ Frame(search).i = 0
    /\ IF Frame(search).dir \notin DOMAIN Listing THEN Searcher(Return(search))
       ELSE LET S1 == [search EXCEPT !.dirs_scanned = @ + 1,
                                     !.stack[Len(search.stack)].i = 1]
            IN  Searcher(Emit(S1, "search_progress",
                              <<S1.dirs_scanned, S1.dirs_to_scan>>))

\* the top of the loop: the loop ends after the last entry, and before an
\* entry the flag is read
PollRunning ==
    /\ search.pc = "files"
    /\ search.ui # "aborted"
    /\ Frame(search).i >= 1
    /\ IF Frame(search).i > Len(Listing[Frame(search).dir]) THEN Searcher(Return(search))
       ELSE LET S1 == [search EXCEPT !.polled_stop = @ \/ ~search.running]
            IN  IF Stopping(S1) THEN Searcher(Return(S1))
                ELSE Searcher([S1 EXCEPT !.pc = "item"])

\* the body of the loop for one entry: a file that matches is announced and
\* counted, a directory is searched when subdirectories are asked for
ExamineItem ==
    /\ search.pc = "item"
    /\ search.ui # "aborted"
    /\ LET f == Frame(search)
           e == Listing[f.dir][f.i]
           S1 == [search EXCEPT !.stack[Len(search.stack)].i = f.i + 1,
                                !.pc = "files"]
       IN  IF e.kind = "file"
           THEN IF S1.search_term # <<>> /\ ~In(S1.search_term, Lower(e.name))
                THEN Searcher(S1)
                ELSE Searcher([Emit(S1, "file_found", e.name)
                                  EXCEPT !.file_count = @ + 1])
           ELSE IF S1.search_subdirs
                THEN Searcher([S1 EXCEPT !.stack = Append(@, [dir |-> e.path, i |-> 0])])
                ELSE Searcher(S1)

\* the last statement of run()
EmitCompleted ==
    /\ search.pc = "completed"
    /\ search.ui # "aborted"
    /\ Searcher([Emit(search, "search_completed", search.file_count)
                    EXCEPT !.pc = "exit"])

\* run() has returned and the thread ends
ThreadExit ==
    /\ search.pc = "exit"
    /\ search.ui # "aborted"
    /\ Searcher([search EXCEPT !.pc = "finished"])

Worker ==
    \/ Run
    \/ ListDirectory
    \/ PollRunning
    \/ ExamineItem
    \/ EmitCompleted
    \/ ThreadExit

\* FileSearcher.start_search, on a click of the search button, with no filter
\* on type or size.  The thread object it replaces is destroyed; Qt ends the
\* process when that thread is still running.
StartSearch ==
    /\ search.ui = "loop"
    /\ search.search_button
    /\ Len(search.finished) < MaxSearches
    /\ \E path \in SearchPaths, term \in Terms, subdirs \in BOOLEAN :
          IF path \notin DOMAIN Listing THEN Searcher(search)
          ELSE Searcher(
                 [search EXCEPT
                    !.table = <<>>,
                    !.search_button = FALSE,
                    !.stop_button = TRUE,
                    !.message = "searching",
                    !.progress = [value |-> 0, maximum |-> 100],
                    !.timer = TRUE,
                    !.search_thread = Len(search.finished) + 1,
                    !.search_term = Lower(term),
                    !.search_subdirs = subdirs,
                    !.running = TRUE,
                    !.file_count = 0,
                    !.dirs_to_scan = 0,
                    !.dirs_scanned = 0,
                    !.stack = <<>>,
                    !.pc = "run",
                    !.ui = IF isRunning(search) THEN "aborted" ELSE "loop",
                    !.polled_stop = FALSE,
                    !.emitted = <<>>,
                    !.finished = Append(@, 0)])

\* FileSearcher.stop_search, on a click of the stop button, up to wait()
StopSearch ==
    /\ search.ui = "loop"
    /\ search.stop_button
    /\ IF search.search_thread # None /\ isRunning(search)
       THEN Searcher([stop(search) EXCEPT !.ui = "wait"])
       ELSE Searcher(search)

\* wait() returns when the thread has ended, and stop_search calls
\* search_finished with the number of rows
StopSearchReturns ==
    /\ search.ui = "wait"
    /\ ~isRunning(search)
    /\ Searcher([search_finished(search, Len(search.table))
                    EXCEPT !.ui = "loop",
                           !.finished[search.search_thread] = @ + 1])

\* the UI thread's loop takes the oldest posted signal and calls its slot
DeliverSignal ==
    /\ search.ui = "loop"
    /\ search.queue # <<>>
    /\ LET ev == Head(search.queue)
           S1 == [search EXCEPT !.queue = Tail(@)]
       IN  CASE ev.sig = "file_found" ->
                  Searcher([add_file_to_table(S1, ev) EXCEPT
                              !.late = IF S1.finished[ev.of] > 0 THEN @ + 1 ELSE @])
             [] ev.sig = "search_completed" ->
                  Searcher([search_finished(S1, ev.arg) EXCEPT
                              !.finished[ev.of] = @ + 1])
             [] ev.sig = "search_progress" ->
                  Searcher(update_progress(S1, ev.arg[1], ev.arg[2]))

SearchNext ==
    \/ StartSearch
    \/ StopSearch
    \/ StopSearchReturns
    \/ DeliverSignal
    \/ Run
    \/ ListDirectory
    \/ PollRunning
    \/ ExamineItem
    \/ EmitCompleted
    \/ ThreadExit

SearchSpec == Init /\ [][SearchNext]_vars

\* the operating system goes on running a thread that can run
FairSearchSpec == Init /\ [][SearchNext]_vars /\ WF_vars(Worker)

\* the positions in the emitted signals of the signal sig
EmittedAt(sig) == {k \in DOMAIN search.emitted : search.emitted[k].sig = sig}

\* C21: once the thread has read the cleared flag it examines no further
\* entry and emits no file_found; when its run ends it has emitted
\* search_completed exactly once, after every file_found; and a thread whose
\* flag was cleared does end.
C21_CooperativeCancellation ==
    /\ [](search.polled_stop => search.pc # "item")
    /\ [](\A k \in EmittedAt("file_found") : ~search.emitted[k].late)
    /\ [](search.pc \in {"exit", "finished"}
            => /\ Cardinality(EmittedAt("search_completed")) = 1
               /\ \A k \in EmittedAt("file_found") :
                     \A c \in EmittedAt("search_completed") : k < c)
    /\ (search.search_thread # None /\ ~search.running) ~> (search.pc = "finished")

\* a search of the whole tree was stopped after its first file: the thread
\* read the cleared flag, left the other entries alone and ended
C21_Witness ==
    /\ search.polled_stop
    /\ search.pc = "finished"
    /\ search.search_subdirs
    /\ search.search_term = <<>>
    /\ Cardinality(EmittedAt("file_found")) = 1
    /\ Cardinality(EmittedAt("search_completed")) = 1

\* C29: search_finished never runs a second time for a search, stopped or
\* not, and no file_found of a search adds a row to the table after
\* search_finished has run for that search.
C29_FinishedOncePerSearch ==
    /\ \A g \in DOMAIN search.finished : search.finished[g] <= 1
    /\ search.late = 0

----------------------------------------------------------------------------
(* The image browser: an ImageLoader makes the thumbnails of a folder and  *)
(* posts each to the UI thread, while the user goes from folder to folder  *)

MaxLoaders == 3     \* image loaders started, browser specification

\* the extensions load_images_from_folder takes for images
image_extensions == {".jpg", ".jpeg", ".png", ".gif", ".bmp", ".webp"}

\* os.listdir of the folders of the tree view: the path of each file, its
\* extension, and whether Image.open can read it
Folders ==
    [p |-> << [file |-> "p/1.png", ext |-> ".png", opens |-> TRUE],
              [file |-> "p/notes.txt", ext |-> ".txt", opens |-> FALSE],
              [file |-> "p/2.JPG", ext |-> ".JPG", opens |-> TRUE] >>,
     q |-> << [file |-> "q/1.gif", ext |-> ".gif", opens |-> TRUE],
              [file |-> "q/broken.png", ext |-> ".png", opens |-> FALSE] >>,
     e |-> << [file |-> "e/readme.txt", ext |-> ".txt", opens |-> FALSE] >>]

\* str.lower(), on the extensions of the folders
LowerExt(ext) == IF ext = ".JPG" THEN ".jpg" ELSE ext

\* whether Image.open reads the file of a path
Opens(path) ==
    \E f \in DOMAIN Folders : \E k \in DOMAIN Folders[f] :
        Folders[f][k].file = path /\ Folders[f][k].opens

\* QThread.isRunning() of the image loader
loaderRunning(B) == B.pc \in {"poll", "load"}

\* load_images_from_folder from the listing of the folder on: an item with
\* an empty icon for each image, and a new loader when there is any image
listImages(B) ==
    LET entries == Folders[B.current_folder]
        IsImage(e) == LowerExt(e.ext) \in image_extensions
        image_files == [k \in DOMAIN SelectSeq(entries, IsImage) |->
                           SelectSeq(entries, IsImage)[k].file]
        B1 == [B EXCEPT !.image_list = [k \in DOMAIN image_files |->
                                           [file |-> image_files[k], icon |-> ""]]]
    IN  IF image_files # <<>>
        THEN [B1 EXCEPT !.image_loader = B.loaders + 1,
                        !.loaders = B.loaders + 1,
                        !.file_paths = image_files,
                        !.running = TRUE,
                        !.i = 0,
                        !.pc = "poll"]
        ELSE B1

\* ImageViewer.on_image_loaded(index, pixmap)
on_image_loaded(B, index, pixmap) ==
    IF index < Len(B.image_list)
    THEN [B EXCEPT !.image_list[index + 1].icon = pixmap]
    ELSE B

\* a step of the image browser leaves the editor and the searcher alone
Viewer(B) ==
    /\ browser' = B
    /\ UNCHANGED <<scene, node, conn, history, history_index, is_modified, page,
                   status, current_file, disk, recorded, trail, search>>

\* ImageViewer.load_images_from_folder, on a click in the folder tree or a
\* folder chosen in the dialog: up to wait() when a loader is running, to its
\* end when none is
LoadImagesFromFolder ==
    /\ browser.ui = "loop"
    /\ browser.loaders < MaxLoaders
    /\ \E folder_path \in DOMAIN Folders :
          LET B1 == [browser EXCEPT !.current_folder = folder_path,
                                    !.image_list = <<>>]
          IN  IF B1.image_loader # None /\ loaderRunning(B1)
              THEN Viewer([B1 EXCEPT !.running = FALSE, !.ui = "wait"])
              ELSE Viewer(listImages(B1))

\* wait() returns when the loader has ended, and load_images_from_folder
\* goes on to list the folder
LoadImagesResumes ==
    /\ browser.ui = "wait"
    /\ ~loaderRunning(browser)
    /\ Viewer(listImages([browser EXCEPT !.ui = "loop"]))

\* ImageLoader.run: the top of its loop
LoaderPoll ==
    /\ browser.pc = "poll"
    /\ IF browser.i >= Len(browser.file_paths) \/ ~browser.running
       THEN Viewer([browser EXCEPT !.pc = "finished"])
       ELSE Viewer([browser EXCEPT !.pc = "load"])

\* ImageLoader.run: the body of its loop; a file that cannot be read raises,
\* which the loop catches
LoaderLoad ==
    /\ browser.pc = "load"
    /\ LET file_path == browser.file_paths[browser.i + 1]
           B1 == [browser EXCEPT !.i = @ + 1, !.pc = "poll"]
       IN  IF Opens(file_path)
           THEN Viewer([B1 EXCEPT !.queue = Append(@, [index |-> browser.i,
                                                         pixmap |-> file_path])])
           ELSE Viewer(B1)

\* the UI thread's loop takes the oldest posted image_loaded and calls its slot
DeliverImage ==
    /\ browser.ui = "loop"
    /\ browser.queue # <<>>
    /\ LET ev == Head(browser.queue)
       IN  Viewer(on_image_loaded([browser EXCEPT !.queue = Tail(@)],
                                  ev.index, ev.pixmap))

ViewerNext ==
    \/ LoadImagesFromFolder
    \/ LoadImagesResumes
    \/ LoaderPoll
    \/ LoaderLoad
    \/ DeliverImage

ViewerSpec == Init /\ [][ViewerNext]_vars

\* C30: the icon of an item of the list is empty or the thumbnail of the
\* item's own file: no thumbnail of a folder that was left is shown on an
\* item of the folder that is open.
C30_ThumbnailOfOwnFolder ==
    \A k \in DOMAIN browser.image_list :
        browser.image_list[k].icon \in {"", browser.image_list[k].file}

====
